---- MODULE Spec2Model ----
(***************************************************************************)
(* Model of terraform-provider-seaweedfs (package seaweedfs).              *)
(*                                                                         *)
(*   Spec       the locking protocol of providerData (provider.go) driven  *)
(*              by the resource handlers that call withUserLock, and the   *)
(*              Read handlers that do not;                                 *)
(*   FairSpec   Spec with the fairness of the Go scheduler;                *)
(*   RetrySpec  one run of retryIAMEventuallyConsistent (client.go) over   *)
(*              an operation whose outcomes are fixed in advance;          *)
(*   RetryFairSpec  RetrySpec with the engine's own steps taken            *)
(*              eventually (the goroutine runs on, the timer expires);     *)
(*   ConstOpSpec  one run of it over an operation that gives the same      *)
(*              result each time, for every kind of error and for larger   *)
(*              budgets;                                                   *)
(*   ProviderSpec  such a run, or one invocation of a Read, Create,        *)
(*              Update or Delete handler through doSignedRequest and       *)
(*              parseAPIError against a backend that answers in any way;   *)
(*   PureSpec   one call of newIAMClient (client.go) or of                 *)
(*              policiesSemanticallyEqual (policy_json.go);                *)
(*   BackendSpec  the calls of the client, in any order, against the       *)
(*              backend of client_test.go.                                 *)
(***************************************************************************)
EXTENDS Integers, Sequences, FiniteSets, TLC

VARIABLES
    \* ---- providerData (provider.go:31-36) ----
    iamWrite,      \* d.iamWrite: the goroutine holding the global write gate, 0 = unlocked
    lockMu,        \* d.lockMu: the goroutine holding the registry mutex, 0 = unlocked
    userLocks,     \* d.userLocks: user name -> lock handle, 0 = no entry
    mu,            \* the sync.Mutex objects created so far: handle -> holder, 0 = unlocked
    \* ---- one goroutine per handler invocation ----
    pc,            \* position of each goroutine
    key,           \* userName argument of withUserLock / user the Read is about
    call,          \* the IAM request the goroutine has in flight ("none" = no request)
    lock,          \* local variable `lock` of withUserLock (a handle, 0 = not yet set)
    fnResult,      \* what fn produced in this call ("none" before it has ended)
    ret,           \* what withUserLock gave back to its caller
    \* ---- observation of the runs (history) ----
    fnCalls,       \* number of times fn was invoked in the call
    trace,         \* lock/unlock/fn events of the call, in order
    gateOrder,     \* the calls that locked the gate and whose body has not completed
                   \* yet, in the order in which they locked it
    \* ---- retryIAMEventuallyConsistent (client.go:410-447) ----
    script,        \* the operation fn: its outcome on the 1st, 2nd, ... invocation
    rArg,          \* the attempts argument as passed by the caller
    rAttempts,     \* local attempts (after the coercion of line 411)
    rI,            \* loop variable i
    rDelay,        \* local delay, in milliseconds
    rLastErr,      \* local lastErr
    rPc,           \* position in the function
    rRet,          \* returned error
    rCalls,        \* number of invocations of fn so far
    ctxDone,       \* ctx.Done() is closed
    timerFired,    \* timer.C holds a value
    rWaits,        \* the delays of the timers created so far
    cancelAt,      \* rCalls when ctx was cancelled during a running backoff timer, -1 = never
    \* ---- one invocation of a resource handler (resource_*.go) ----
    hKind,         \* the handler invoked ("none" = no invocation)
    hPc,           \* "idle", "ready" (entered, request decoded) or "done" (returned)
    hReq,          \* req.State of a Read, req.Plan of a Create
    tfState,       \* resp.State
    diags,         \* resp.Diagnostics: the errors added, in order
    stateOps,      \* the calls made on resp.State ("Set", "RemoveResource"), in order
    httpLog,       \* the HTTP requests issued through doSignedRequest, in order
    \* ---- one call of a function without side effects ----
    pureOp,        \* the function called ("none" = no call)
    pureArgs,      \* its arguments
    purePc,        \* "idle", "call" (entered) or "done" (returned)
    pureOut,       \* what it returned
    \* ---- the backend of client_test.go and the client calling it ----
    users,         \* users: the user names that exist
    keys,          \* keys: user name -> access key id, as <<name, id>> pairs
    policies,      \* policies: "user:policy" -> document, as pairs
    buckets,       \* buckets: the bucket names that exist
    bucketTags,    \* bucketTags: bucket name -> tag map, as pairs
    last,          \* the client call that returned last: its answer, error and result
    issued,        \* the key id the client got from CreateAccessKey and has not deleted
    tagged         \* the tag map the client put last and has not deleted

lockVars  == <<iamWrite, lockMu, userLocks, mu, pc, key, call, lock, fnResult,
               ret, fnCalls, trace, gateOrder>>
retryVars == <<script, rArg, rAttempts, rI, rDelay, rLastErr, rPc, rRet, rCalls,
               ctxDone, timerFired, rWaits, cancelAt>>
resVars   == <<hKind, hPc, hReq, tfState, diags, stateOps, httpLog>>
pureVars  == <<pureOp, pureArgs, purePc, pureOut>>
backendVars == <<users, keys, policies, buckets, bucketTags, last, issued, tagged>>
vars      == <<lockVars, retryVars, resVars, pureVars, backendVars>>

-----------------------------------------------------------------------------
(* Bounds *)

NumProcs == 2        \* concurrent handler invocations (one goroutine each)
MaxAttempts == 4     \* largest attempt budget, and length of the operation script
MaxBudget == 6       \* largest attempt budget given to an operation that always fails
MaxWrapDepth == 2    \* deepest nesting of fmt.Errorf("%w") around an error

Procs == 1..NumProcs
Users == {"alice", "bob"}
Handles == 1..NumProcs    \* a goroutine creates at most one sync.Mutex

-----------------------------------------------------------------------------
(* Errors (client.go:38-41 iamError, errors.New, ctx.Err, fmt.Errorf %w)   *)

NilErr == [typ |-> "nil", code |-> ""]
iamError(c) == [typ |-> "iamError", code |-> c]
PlainErr == [typ |-> "errorString", code |-> "boom"]
CtxErr == [typ |-> "context", code |-> "canceled"]

\* fmt.Errorf("<msg>: %w", inner): an error whose Unwrap() is inner
wrapError(msg, inner) == [typ |-> "wrapError", code |-> msg, inner |-> inner]

\* errors.As(err, &apiErr) with apiErr an iamError: walks the Unwrap chain and
\* yields the first iamError in it; NilErr stands for the answer false
RECURSIVE errorsAs(_)
errorsAs(err) ==
    IF err.typ = "iamError" THEN err
    ELSE IF err.typ = "wrapError" THEN errorsAs(err.inner)
    ELSE NilErr

isNoSuchEntityErrorNever(err) == FALSE

isNoSuchEntityError(err) ==
    LET apiErr == errorsAs(err) IN
    apiErr.typ = "iamError" /\ apiErr.code = "NoSuchEntity"

isEntityAlreadyExistsError(err) ==
    LET apiErr == errorsAs(err) IN
    apiErr.typ = "iamError" /\ apiErr.code = "EntityAlreadyExists"

isServiceFailureErrorCodeOnly(err) ==
    LET apiErr == errorsAs(err) IN
    apiErr.typ = "iamError" /\ apiErr.code = "ServiceFailure"

isServiceFailureError(err) ==
    LET apiErr == errorsAs(err) IN
    apiErr.typ = "iamError" /\ apiErr.code \in {"ServiceFailure", "HTTP500", "HTTP503"}

isNoSuchBucketErrorAnyCode(err) == errorsAs(err).typ = "iamError"

isNoSuchBucketError(err) ==
    LET apiErr == errorsAs(err) IN
    apiErr.typ = "iamError"
        /\ apiErr.code \in {"NoSuchBucket", "NotFound", "NoSuchKey", "NoSuchEntity"}

isBucketAlreadyExistsErrorOwnedOnly(err) ==
    LET apiErr == errorsAs(err) IN
    apiErr.typ = "iamError" /\ apiErr.code = "BucketAlreadyOwnedByYou"

isBucketAlreadyExistsError(err) ==
    LET apiErr == errorsAs(err) IN
    apiErr.typ = "iamError"
        /\ apiErr.code \in {"BucketAlreadyOwnedByYou", "BucketAlreadyExists"}

isRetryableIAMErrorAlways(err) == TRUE

isRetryableIAMErrorNonApi(err) ==
    isNoSuchEntityError(err) \/ isServiceFailureError(err) \/ errorsAs(err) = NilErr

isRetryableIAMError(err) == isNoSuchEntityError(err) \/ isServiceFailureError(err)

-----------------------------------------------------------------------------
(* Resource handlers and the IAM calls they make *)

\* the calls made inside a withUserLock body: CreateUser (iamUserResource.Create),
\* DeleteUser (.Delete), CreateAccessKey / DeleteAccessKey (iamAccessKeyResource),
\* PutUserPolicy (iamUserPolicyResource.Create and .Update), DeleteUserPolicy (.Delete)
MutatingCalls == {"CreateUser", "DeleteUser", "CreateAccessKey", "DeleteAccessKey",
                  "PutUserPolicy", "DeleteUserPolicy"}

\* the calls the Read handlers make, outside any lock
\* (HeadBucket: bucketResource.Read, policy_json.go:171)
ReadCalls == {"GetUser", "ListAccessKeys", "GetUserPolicy", "HeadBucket"}

\* outcomes of a wrapped function body: nil, an error, or a panic
FnOutcomes == {"nil", "ServiceFailure", "panic"}

-----------------------------------------------------------------------------
(* sync.Mutex *)

\* m.Lock() proceeds only on an unlocked mutex
MutexLockReadyNoWait(holder) == TRUE

MutexLockReady(holder) == holder = 0

-----------------------------------------------------------------------------
(* Initial state: providerData as built by Configure (provider.go:131-134),*)
(* no handler entered, no retry run.                                       *)

LockInit ==
    /\ iamWrite = 0
    /\ lockMu = 0
    /\ userLocks = [u \in Users |-> 0]
    /\ mu = << >>
    /\ pc = [p \in Procs |-> "idle"]
    /\ key = [p \in Procs |-> "none"]
    /\ call = [p \in Procs |-> "none"]
    /\ lock = [p \in Procs |-> 0]
    /\ fnResult = [p \in Procs |-> "none"]
    /\ ret = [p \in Procs |-> "none"]
    /\ fnCalls = [p \in Procs |-> 0]
    /\ trace = [p \in Procs |-> << >>]
    /\ gateOrder = << >>

RetryIdle ==
    /\ script = << >>
    /\ rArg = 0
    /\ rAttempts = 0
    /\ rI = 0
    /\ rDelay = 0
    /\ rLastErr = NilErr
    /\ rPc = "off"
    /\ rRet = NilErr
    /\ rCalls = 0
    /\ ctxDone = FALSE
    /\ timerFired = FALSE
    /\ rWaits = << >>
    /\ cancelAt = -1

\* a null resp.State / req.State (no resource recorded)
NullState == [kind |-> "null"]

ResIdle ==
    /\ hKind = "none"
    /\ hPc = "idle"
    /\ hReq = NullState
    /\ tfState = NullState
    /\ diags = << >>
    /\ stateOps = << >>
    /\ httpLog = << >>

\* no pure function is being called
NoValue == [kind |-> "none"]

PureIdle ==
    /\ pureOp = "none"
    /\ pureArgs = NoValue
    /\ purePc = "idle"
    /\ pureOut = NoValue

\* client_test.go:135-139: the maps of the backend before the first request
BackendStart ==
    /\ users = {"alice"}
    /\ keys = {}
    /\ policies = {}
    /\ buckets = {}
    /\ bucketTags = {}
    /\ last = [op |-> "none"]
    /\ issued = ""
    /\ tagged = {}

Init == LockInit /\ RetryIdle /\ ResIdle /\ PureIdle /\ BackendStart

-----------------------------------------------------------------------------
(* Handlers that mutate: Create/Update/Delete of user, access key, policy  *)
(* (resource_iam_user.go:104,187  resource_iam_access_key.go:89,156        *)
(*  resource_iam_user_policy.go:86,131,154)                                *)

\* the handler is entered and reaches its call of withUserLock(userName, fn)
HandlerStart(p) ==
    /\ pc[p] = "idle"
    /\ \E u \in Users : key' = [key EXCEPT ![p] = u]
    /\ pc' = [pc EXCEPT ![p] = "wul_gate"]
    /\ UNCHANGED <<iamWrite, lockMu, userLocks, mu, call, lock, fnResult, ret, fnCalls,
                   trace, gateOrder>>

\* provider.go:39  d.iamWrite.Lock()
GateLockSkipped(p) ==
    /\ pc[p] = "wul_gate"
    /\ pc' = [pc EXCEPT ![p] = "gul_lockMu"]
    /\ trace' = [trace EXCEPT ![p] = Append(@, "Lock iamWrite")]
    /\ gateOrder' = Append(gateOrder, p)
    /\ UNCHANGED <<iamWrite, lockMu, userLocks, mu, key, call, lock, fnResult, ret,
                   fnCalls>>

GateLock(p) ==
    /\ pc[p] = "wul_gate"
    /\ MutexLockReady(iamWrite)
    /\ iamWrite' = p
    /\ pc' = [pc EXCEPT ![p] = "gul_lockMu"]
    /\ trace' = [trace EXCEPT ![p] = Append(@, "Lock iamWrite")]
    /\ gateOrder' = Append(gateOrder, p)
    /\ UNCHANGED <<lockMu, userLocks, mu, key, call, lock, fnResult, ret,
                   fnCalls>>

\* provider.go:42,49  getUserLock is entered: d.lockMu.Lock()
RegistryLock(p) ==
    /\ pc[p] = "gul_lockMu"
    /\ MutexLockReady(lockMu)
    /\ lockMu' = p
    /\ pc' = [pc EXCEPT ![p] = "gul_lookup"]
    /\ UNCHANGED <<iamWrite, userLocks, mu, key, call, lock, fnResult, ret,
                   fnCalls, trace, gateOrder>>

\* provider.go:52-58  the map exists (Configure made it); look the entry up
RegistryLookupAlwaysCreates(p) ==
    /\ pc[p] = "gul_lookup"
    /\ pc' = [pc EXCEPT ![p] = "gul_create"]
    /\ UNCHANGED <<iamWrite, lockMu, userLocks, mu, key, call, lock, fnResult, ret,
                   fnCalls, trace, gateOrder>>

RegistryLookup(p) ==
    /\ pc[p] = "gul_lookup"
    /\ IF userLocks[key[p]] # 0
          THEN /\ lock' = [lock EXCEPT ![p] = userLocks[key[p]]]
               /\ pc' = [pc EXCEPT ![p] = "gul_unlock"]
          ELSE /\ pc' = [pc EXCEPT ![p] = "gul_create"]
               /\ UNCHANGED lock
    /\ UNCHANGED <<iamWrite, lockMu, userLocks, mu, key, call, fnResult, ret,
                   fnCalls, trace, gateOrder>>

\* provider.go:60-62  first reference: lock := &sync.Mutex{}; d.userLocks[userName] = lock
RegistryCreate(p) ==
    /\ pc[p] = "gul_create"
    /\ mu' = Append(mu, 0)
    /\ userLocks' = [userLocks EXCEPT ![key[p]] = Len(mu) + 1]
    /\ lock' = [lock EXCEPT ![p] = Len(mu) + 1]
    /\ pc' = [pc EXCEPT ![p] = "gul_unlock"]
    /\ UNCHANGED <<iamWrite, lockMu, key, call, fnResult, ret,
                   fnCalls, trace, gateOrder>>

\* provider.go:50  defer d.lockMu.Unlock(), run when getUserLock returns
RegistryUnlockKeepsLock(p) ==
    /\ pc[p] = "gul_unlock"
    /\ pc' = [pc EXCEPT ![p] = "wul_lock"]
    /\ UNCHANGED <<iamWrite, lockMu, userLocks, mu, key, call, lock, fnResult, ret,
                   fnCalls, trace, gateOrder>>

RegistryUnlock(p) ==
    /\ pc[p] = "gul_unlock"
    /\ lockMu' = 0
    /\ pc' = [pc EXCEPT ![p] = "wul_lock"]
    /\ UNCHANGED <<iamWrite, userLocks, mu, key, call, lock, fnResult, ret,
                   fnCalls, trace, gateOrder>>

getUserLock(p) ==
    \/ RegistryLock(p)
    \/ RegistryLookup(p)
    \/ RegistryCreate(p)
    \/ RegistryUnlock(p)

\* provider.go:43  lock.Lock()
UserLock(p) ==
    /\ pc[p] = "wul_lock"
    /\ MutexLockReady(mu[lock[p]])
    /\ mu' = [mu EXCEPT ![lock[p]] = p]
    /\ pc' = [pc EXCEPT ![p] = "wul_fn"]
    /\ trace' = [trace EXCEPT ![p] = Append(@, "Lock user")]
    /\ UNCHANGED <<iamWrite, lockMu, userLocks, key, call, lock, fnResult, ret,
                   fnCalls, gateOrder>>

\* provider.go:45  fn() is entered: the handler's closure issues its mutating IAM call
FnCall(p) ==
    /\ pc[p] = "wul_fn"
    /\ \E c \in MutatingCalls : call' = [call EXCEPT ![p] = c]
    /\ pc' = [pc EXCEPT ![p] = "in_fn"]
    /\ fnCalls' = [fnCalls EXCEPT ![p] = @ + 1]
    /\ trace' = [trace EXCEPT ![p] = Append(@, "fn")]
    /\ UNCHANGED <<iamWrite, lockMu, userLocks, mu, key, lock, fnResult, ret,
                   gateOrder>>

\* provider.go:45  fn() ends: it returns nil, returns an error, or panics
FnReturn(p) ==
    /\ pc[p] = "in_fn"
    /\ \E o \in FnOutcomes : fnResult' = [fnResult EXCEPT ![p] = o]
    /\ call' = [call EXCEPT ![p] = "none"]
    /\ pc' = [pc EXCEPT ![p] = "wul_unlockUser"]
    /\ gateOrder' = SelectSeq(gateOrder, LAMBDA x : x # p)
    /\ UNCHANGED <<iamWrite, lockMu, userLocks, mu, key, lock, ret,
                   fnCalls, trace>>

\* provider.go:44  defer lock.Unlock(): deferred calls run last-in first-out,
\* on a return and on a panic alike
UserUnlockSkipped(p) ==
    /\ pc[p] = "wul_unlockUser"
    /\ pc' = [pc EXCEPT ![p] = "wul_unlockGate"]
    /\ UNCHANGED <<iamWrite, lockMu, userLocks, mu, key, call, lock, fnResult, ret,
                   fnCalls, trace, gateOrder>>

UserUnlock(p) ==
    /\ pc[p] = "wul_unlockUser"
    /\ mu' = [mu EXCEPT ![lock[p]] = 0]
    /\ pc' = [pc EXCEPT ![p] = "wul_unlockGate"]
    /\ trace' = [trace EXCEPT ![p] = Append(@, "Unlock user")]
    /\ UNCHANGED <<iamWrite, lockMu, userLocks, key, call, lock, fnResult, ret,
                   fnCalls, gateOrder>>

\* provider.go:40  defer d.iamWrite.Unlock(); then the caller has fn's result
\* (a panic keeps unwinding into the caller)
GateUnlockOnSuccessOnly(p) ==
    /\ pc[p] = "wul_unlockGate"
    /\ iamWrite' = IF fnResult[p] = "nil" THEN 0 ELSE iamWrite
    /\ pc' = [pc EXCEPT ![p] = "returned"]
    /\ ret' = [ret EXCEPT ![p] = fnResult[p]]
    /\ trace' = [trace EXCEPT ![p] =
                    IF fnResult[p] = "nil" THEN Append(@, "Unlock iamWrite") ELSE @]
    /\ UNCHANGED <<lockMu, userLocks, mu, key, call, lock, fnResult,
                   fnCalls, gateOrder>>

GateUnlockDropsError(p) ==
    /\ pc[p] = "wul_unlockGate"
    /\ iamWrite' = 0
    /\ pc' = [pc EXCEPT ![p] = "returned"]
    /\ ret' = [ret EXCEPT ![p] = IF fnResult[p] = "panic" THEN "panic" ELSE "nil"]
    /\ trace' = [trace EXCEPT ![p] = Append(@, "Unlock iamWrite")]
    /\ UNCHANGED <<lockMu, userLocks, mu, key, call, lock, fnResult,
                   fnCalls, gateOrder>>

GateUnlock(p) ==
    /\ pc[p] = "wul_unlockGate"
    /\ iamWrite' = 0
    /\ pc' = [pc EXCEPT ![p] = "returned"]
    /\ ret' = [ret EXCEPT ![p] = fnResult[p]]
    /\ trace' = [trace EXCEPT ![p] = Append(@, "Unlock iamWrite")]
    /\ UNCHANGED <<lockMu, userLocks, mu, key, call, lock, fnResult,
                   fnCalls, gateOrder>>

withUserLock(p) ==
    \/ GateLock(p)
    \/ getUserLock(p)
    \/ UserLock(p)
    \/ FnCall(p)
    \/ FnReturn(p)
    \/ UserUnlock(p)
    \/ GateUnlock(p)

\* the handler turns the result into state or a diagnostic and ends;
\* the locals of the invocation are gone
HandlerFinish(p) ==
    /\ pc[p] = "returned"
    /\ pc' = [pc EXCEPT ![p] = "done"]
    /\ key' = [key EXCEPT ![p] = "none"]
    /\ lock' = [lock EXCEPT ![p] = 0]
    /\ fnResult' = [fnResult EXCEPT ![p] = "none"]
    /\ ret' = [ret EXCEPT ![p] = "none"]
    /\ fnCalls' = [fnCalls EXCEPT ![p] = 0]
    /\ trace' = [trace EXCEPT ![p] = << >>]
    /\ UNCHANGED <<iamWrite, lockMu, userLocks, mu, call, gateOrder>>

-----------------------------------------------------------------------------
(* Read handlers: the IAM call is made directly, with no lock              *)
(* (resource_iam_user.go:143  resource_iam_access_key.go:116               *)
(*  resource_iam_user_policy.go:109)                                       *)

ReadStartGated(p) ==
    /\ pc[p] = "idle"
    /\ MutexLockReady(iamWrite)
    /\ \E c \in ReadCalls, u \in Users :
          /\ call' = [call EXCEPT ![p] = c]
          /\ key' = [key EXCEPT ![p] = u]
    /\ pc' = [pc EXCEPT ![p] = "reading"]
    /\ UNCHANGED <<iamWrite, lockMu, userLocks, mu, lock, fnResult, ret, fnCalls,
                   trace, gateOrder>>

ReadStart(p) ==
    /\ pc[p] = "idle"
    /\ \E c \in ReadCalls, u \in Users :
          /\ call' = [call EXCEPT ![p] = c]
          /\ key' = [key EXCEPT ![p] = u]
    /\ pc' = [pc EXCEPT ![p] = "reading"]
    /\ UNCHANGED <<iamWrite, lockMu, userLocks, mu, lock, fnResult, ret, fnCalls,
                   trace, gateOrder>>

ReadEnd(p) ==
    /\ pc[p] = "reading"
    /\ pc' = [pc EXCEPT ![p] = "done"]
    /\ call' = [call EXCEPT ![p] = "none"]
    /\ key' = [key EXCEPT ![p] = "none"]
    /\ UNCHANGED <<iamWrite, lockMu, userLocks, mu, lock, fnResult, ret, fnCalls,
                   trace, gateOrder>>

-----------------------------------------------------------------------------

LockNext ==
    \E p \in Procs :
        \/ HandlerStart(p)
        \/ withUserLock(p)
        \/ HandlerFinish(p)
        \/ ReadStart(p)
        \/ ReadEnd(p)

Next == LockNext /\ UNCHANGED <<retryVars, resVars, pureVars, backendVars>>

Spec == Init /\ [][Next]_vars

\* The Go scheduler runs every runnable goroutine eventually: a handler that
\* has been entered keeps going, and a wrapped function body terminates.
\* Nothing obliges the host to enter a handler (HandlerStart, ReadStart).
Progress(p) == (withUserLock(p) \/ HandlerFinish(p) \/ ReadEnd(p))
                   /\ UNCHANGED <<retryVars, resVars, pureVars, backendVars>>

FairSpec == Spec /\ \A p \in Procs : WF_vars(Progress(p))

-----------------------------------------------------------------------------
(* Properties of the locking protocol *)

\* the mutexes goroutine p holds
HoldsGate(p) == iamWrite = p
HoldsUserLock(p) == \E h \in DOMAIN mu : mu[h] = p
BodyDone(p) == pc[p] \in {"wul_unlockUser", "wul_unlockGate", "returned"}
InCall(p) == pc[p] \in {"wul_gate", "gul_lockMu", "gul_lookup", "gul_create", "gul_unlock",
                        "wul_lock", "wul_fn", "in_fn", "wul_unlockUser", "wul_unlockGate"}

\* C1: withUserLock calls that use the same user name never have their
\* wrapped function bodies executing at the same moment.
C1_SameUserBodiesExclusive ==
    \A p, q \in Procs :
        (p # q /\ pc[p] = "in_fn" /\ pc[q] = "in_fn") => key[p] # key[q]

\* two concurrent calls for the same user: one is in its body, the other
\* has already finished its body and has not returned to its handler's end
C1_Witness ==
    \E p, q \in Procs :
        /\ p # q
        /\ key[p] = "alice" /\ key[q] = "alice"
        /\ pc[p] = "in_fn" /\ pc[q] = "returned"

\* C2: at most one mutating IAM call is in flight at any time, for the same
\* user or for different users, and it is made by a goroutine that is inside
\* a withUserLock body, holding the global write gate and its user lock.
C2_MutatingCallsSerialized ==
    /\ Cardinality({p \in Procs : call[p] \in MutatingCalls}) <= 1
    /\ \A p \in Procs :
          call[p] \in MutatingCalls =>
             /\ pc[p] = "in_fn"
             /\ iamWrite = p
             /\ lock[p] \in DOMAIN mu /\ mu[lock[p]] = p

\* a mutating call for bob is in flight while a mutating handler for alice
\* waits at the gate
C2_Witness ==
    \E p, q \in Procs :
        /\ call[p] = "DeleteAccessKey" /\ key[p] = "bob"
        /\ pc[q] = "wul_gate" /\ key[q] = "alice"

\* C3: in every withUserLock call the gate is locked before the user lock,
\* the user lock is unlocked before the gate, a goroutine never holds a user
\* lock without the gate, and when the call is over (fn returned nil, an
\* error, or panicked) the caller holds neither lock.
C3_LockOrderAndRelease ==
    \A p \in Procs :
        /\ HoldsUserLock(p) => HoldsGate(p)
        /\ pc[p] = "returned" =>
              /\ trace[p] = <<"Lock iamWrite", "Lock user", "fn",
                              "Unlock user", "Unlock iamWrite">>
              /\ ~HoldsGate(p)
              /\ ~HoldsUserLock(p)

\* one call has ended by a panic of fn, another by fn returning nil
C3_Witness ==
    \E p, q \in Procs :
        /\ pc[p] = "returned" /\ ret[p] = "panic"
        /\ pc[q] = "returned" /\ ret[q] = "nil"

\* C4: under fair scheduling, with wrapped bodies that terminate, every
\* withUserLock call that has been made eventually returns.
C4_EveryCallReturns ==
    \A p \in Procs : (pc[p] = "wul_gate") ~> (pc[p] = "returned")

\* a call that had to wait at the gate behind a failing call has returned
C4_Witness ==
    \E p, q \in Procs :
        /\ pc[p] = "returned" /\ ret[p] = "ServiceFailure" /\ key[p] = "alice"
        /\ pc[q] = "returned" /\ ret[q] = "nil" /\ key[q] = "bob"

\* position of goroutine p in gateOrder, 0 = not in it
GatePos(seq, p) == IF \E i \in DOMAIN seq : seq[i] = p
                   THEN CHOOSE i \in DOMAIN seq : seq[i] = p
                   ELSE 0

\* C5: of two calls on different user names, the one that acquired the gate
\* first completes its body first: no step completes the body of a call while
\* a call for another user that locked the gate earlier is still incomplete.
C5_NoInvertedCompletion ==
    [][\A p, q \in Procs :
          (/\ key[p] # key[q]
           /\ GatePos(gateOrder, p) > 0
           /\ GatePos(gateOrder, p) < GatePos(gateOrder, q)
           /\ GatePos(gateOrder', q) = 0)
          => GatePos(gateOrder', p) = 0]_vars

\* alice's call and bob's call have both locked the gate and completed
\* their bodies, one after the other
C5_Witness ==
    \E p, q \in Procs :
        /\ key[p] = "alice" /\ key[q] = "bob"
        /\ pc[p] = "returned" /\ pc[q] = "wul_unlockUser"

\* C6: withUserLock invokes fn exactly once and hands its caller exactly
\* what fn produced.
C6_FnOnceResultUnchanged ==
    \A p \in Procs :
        pc[p] = "returned" =>
            /\ fnCalls[p] = 1
            /\ fnResult[p] \in FnOutcomes
            /\ ret[p] = fnResult[p]

\* an error of fn has come back from a call for bob
C6_Witness ==
    \E p \in Procs :
        pc[p] = "returned" /\ key[p] = "bob" /\ fnResult[p] = "ServiceFailure"

-----------------------------------------------------------------------------
(* retryIAMEventuallyConsistent(ctx, attempts, fn)  (client.go:410-447)    *)

\* what the operation returns on its n-th invocation; beyond the script it
\* keeps returning its last outcome
Outcomes == {NilErr, iamError("NoSuchEntity"), iamError("ServiceFailure"),
             iamError("EntityAlreadyExists"), PlainErr}

FnOutcome(n) == IF n <= Len(script) THEN script[n] ELSE script[Len(script)]

\* client.go:415  delay := 200 * time.Millisecond
InitialDelayMs == 200

\* client.go:441  2 * time.Second
MaxDelayMs == 2000

\* client.go:440-443  delay *= 2, capped
NextDelayUncapped(d) == d * 2

NextDelay(d) == IF d * 2 > MaxDelayMs THEN MaxDelayMs ELSE d * 2

\* client.go:428  i == attempts-1
LastAttemptEarly(i, attempts) == i >= attempts - 2

LastAttempt(i, attempts) == i = attempts - 1

\* a caller enters the function: any budget, any operation, a context that
\* may already be cancelled
RetryInit ==
    /\ LockInit
    /\ ResIdle
    /\ PureIdle
    /\ BackendStart
    /\ script \in [1..MaxAttempts -> Outcomes]
    /\ rArg \in -1..MaxAttempts
    /\ ctxDone \in BOOLEAN
    /\ rAttempts = rArg
    /\ rI = 0
    /\ rDelay = 0
    /\ rLastErr = NilErr
    /\ rPc = "entry"
    /\ rRet = NilErr
    /\ rCalls = 0
    /\ timerFired = FALSE
    /\ rWaits = << >>
    /\ cancelAt = -1

\* client.go:411-418  coerce the budget, set delay and lastErr, i := 0
RetryBeginNoCoerce ==
    /\ rPc = "entry"
    /\ rAttempts' = rAttempts
    /\ rDelay' = InitialDelayMs
    /\ rLastErr' = NilErr
    /\ rI' = 0
    /\ rPc' = "loop"
    /\ UNCHANGED <<script, rArg, rRet, rCalls, ctxDone, timerFired, rWaits, cancelAt>>

RetryBegin ==
    /\ rPc = "entry"
    /\ rAttempts' = IF rAttempts < 1 THEN 1 ELSE rAttempts
    /\ rDelay' = InitialDelayMs
    /\ rLastErr' = NilErr
    /\ rI' = 0
    /\ rPc' = "loop"
    /\ UNCHANGED <<script, rArg, rRet, rCalls, ctxDone, timerFired, rWaits, cancelAt>>

RetryAttemptChecksCtx ==
    IF ctxDone
    THEN /\ rPc = "loop"
         /\ rI < rAttempts
         /\ rPc' = "done"
         /\ rRet' = CtxErr
         /\ UNCHANGED <<script, rArg, rAttempts, rI, rDelay, rLastErr, rCalls, ctxDone,
                        timerFired, rWaits, cancelAt>>
    ELSE
         /\ rPc = "loop"
         /\ rI < rAttempts
         /\ rCalls' = rCalls + 1
         /\ LET err == FnOutcome(rCalls + 1) IN
              IF err = NilErr
              THEN /\ rPc' = "done"
                   /\ rRet' = NilErr
                   /\ UNCHANGED <<rLastErr, timerFired, rWaits>>
              ELSE IF ~isRetryableIAMError(err)
              THEN /\ rPc' = "done"
                   /\ rRet' = err
                   /\ UNCHANGED <<rLastErr, timerFired, rWaits>>
              ELSE IF LastAttempt(rI, rAttempts)
              THEN /\ rLastErr' = err
                   /\ rPc' = "break"
                   /\ UNCHANGED <<rRet, timerFired, rWaits>>
              ELSE /\ rLastErr' = err
                   /\ rPc' = "select"
                   /\ timerFired' = FALSE
                   /\ rWaits' = Append(rWaits, rDelay)
                   /\ UNCHANGED rRet
         /\ UNCHANGED <<script, rArg, rAttempts, rI, rDelay, ctxDone, cancelAt>>

\* client.go:418-432  one pass of the loop body up to the select:
\* err := fn(); return on nil; return on a non-retryable error; lastErr = err;
\* break on the last attempt; otherwise start the timer
RetryAttempt ==
    /\ rPc = "loop"
    /\ rI < rAttempts
    /\ rCalls' = rCalls + 1
    /\ LET err == FnOutcome(rCalls + 1) IN
         IF err = NilErr
         THEN /\ rPc' = "done"
              /\ rRet' = NilErr
              /\ UNCHANGED <<rLastErr, timerFired, rWaits>>
         ELSE IF ~isRetryableIAMError(err)
         THEN /\ rPc' = "done"
              /\ rRet' = err
              /\ UNCHANGED <<rLastErr, timerFired, rWaits>>
         ELSE IF LastAttempt(rI, rAttempts)
         THEN /\ rLastErr' = err
              /\ rPc' = "break"
              /\ UNCHANGED <<rRet, timerFired, rWaits>>
         ELSE /\ rLastErr' = err
              /\ rPc' = "select"
              /\ timerFired' = FALSE
              /\ rWaits' = Append(rWaits, rDelay)
              /\ UNCHANGED rRet
    /\ UNCHANGED <<script, rArg, rAttempts, rI, rDelay, ctxDone, cancelAt>>

\* client.go:434-436  case <-ctx.Done(): timer.Stop(); return ctx.Err()
RetrySelectCtxLastErr ==
    /\ rPc = "select"
    /\ ctxDone
    /\ rPc' = "done"
    /\ rRet' = rLastErr
    /\ UNCHANGED <<script, rArg, rAttempts, rI, rDelay, rLastErr, rCalls, ctxDone,
                   timerFired, rWaits, cancelAt>>

RetrySelectCtx ==
    /\ rPc = "select"
    /\ ctxDone
    /\ rPc' = "done"
    /\ rRet' = CtxErr
    /\ UNCHANGED <<script, rArg, rAttempts, rI, rDelay, rLastErr, rCalls, ctxDone,
                   timerFired, rWaits, cancelAt>>

\* client.go:437-444,418  case <-timer.C: ; double the delay; i++
\* (a select with both channels ready takes either case)
RetrySelectTimer ==
    /\ rPc = "select"
    /\ timerFired
    /\ rDelay' = NextDelay(rDelay)
    /\ rI' = rI + 1
    /\ rPc' = "loop"
    /\ UNCHANGED <<script, rArg, rAttempts, rLastErr, rRet, rCalls, ctxDone,
                   timerFired, rWaits, cancelAt>>

\* client.go:429,446  break; return lastErr  (also the exit of a loop whose
\* condition i < attempts fails)
RetryReturnNil ==
    /\ rPc = "break" \/ (rPc = "loop" /\ rI >= rAttempts)
    /\ rPc' = "done"
    /\ rRet' = NilErr
    /\ UNCHANGED <<script, rArg, rAttempts, rI, rDelay, rLastErr, rCalls, ctxDone,
                   timerFired, rWaits, cancelAt>>

RetryReturnLast ==
    /\ rPc = "break" \/ (rPc = "loop" /\ rI >= rAttempts)
    /\ rPc' = "done"
    /\ rRet' = rLastErr
    /\ UNCHANGED <<script, rArg, rAttempts, rI, rDelay, rLastErr, rCalls, ctxDone,
                   timerFired, rWaits, cancelAt>>

\* the runtime timer started at client.go:432 expires: a value is in timer.C
TimerFire ==
    /\ rPc = "select"
    /\ ~timerFired
    /\ timerFired' = TRUE
    /\ UNCHANGED <<script, rArg, rAttempts, rI, rDelay, rLastErr, rPc, rRet, rCalls,
                   ctxDone, rWaits, cancelAt>>

\* the caller's context is cancelled, at any moment of the run
Cancel ==
    /\ rPc \in {"entry", "loop", "select", "break"}
    /\ ~ctxDone
    /\ ctxDone' = TRUE
    /\ cancelAt' = IF rPc = "select" /\ ~timerFired THEN rCalls ELSE cancelAt
    /\ UNCHANGED <<script, rArg, rAttempts, rI, rDelay, rLastErr, rPc, rRet, rCalls,
                   timerFired, rWaits>>

RetryNext ==
    /\ \/ RetryBegin
       \/ RetryAttempt
       \/ RetrySelectCtx
       \/ RetrySelectTimer
       \/ RetryReturnLast
       \/ TimerFire
       \/ Cancel
    /\ UNCHANGED <<lockVars, resVars, pureVars, backendVars>>

RetrySpec == RetryInit /\ [][RetryNext]_vars

-----------------------------------------------------------------------------
(* One run of retryIAMEventuallyConsistent over an operation that returns  *)
(* the same result on every invocation, for every kind of error a client  *)
(* call can return.                                                        *)

\* error codes a backend answer can carry (client.go:341-380 parseAPIError)
ApiCodes == {"NoSuchEntity", "ServiceFailure", "HTTP500", "HTTP503",
             "EntityAlreadyExists", "BucketAlreadyOwnedByYou", "BucketAlreadyExists",
             "NoSuchBucket", "HTTP404", "AccessDenied"}

\* client.go:318-321  the error of c.http.Do, returned as it is
TransportErr == [typ |-> "urlError", code |-> "connection refused"]

\* client.go:324-327  the error of io.ReadAll, wrapped
ReadBodyErr == wrapError("read response body", [typ |-> "ioError", code |-> "unexpected EOF"])

\* client.go:333-337  the error of xml.Unmarshal, wrapped
DecodeErr == wrapError("decode xml response", [typ |-> "xmlSyntaxError", code |-> "EOF"])

\* the errors of S, bare or inside up to n layers of fmt.Errorf("%w")
RECURSIVE Wrapped(_, _)
Wrapped(S, n) ==
    IF n = 0 THEN S
    ELSE S \cup {wrapError("op", e) : e \in Wrapped(S, n - 1)}

ClientErrors ==
    Wrapped({iamError(c) : c \in ApiCodes}
                \cup {PlainErr, TransportErr, ReadBodyErr, DecodeErr},
            MaxWrapDepth)

ConstOpInit ==
    /\ LockInit
    /\ ResIdle
    /\ PureIdle
    /\ BackendStart
    /\ script \in [1..1 -> {NilErr} \cup ClientErrors]
    /\ rArg \in -1..MaxBudget
    /\ ctxDone \in BOOLEAN
    /\ rAttempts = rArg
    /\ rI = 0
    /\ rDelay = 0
    /\ rLastErr = NilErr
    /\ rPc = "entry"
    /\ rRet = NilErr
    /\ rCalls = 0
    /\ timerFired = FALSE
    /\ rWaits = << >>
    /\ cancelAt = -1

ConstOpSpec == ConstOpInit /\ [][RetryNext]_vars

-----------------------------------------------------------------------------
(* Properties of the retry engine *)

\* the error codes the engine is specified to retry on
RetryableCodes == {"NoSuchEntity", "ServiceFailure", "HTTP500", "HTTP503"}
RetryableOutcome(e) == e.typ = "iamError" /\ e.code \in RetryableCodes
FatalOutcome(e) == e # NilErr /\ ~RetryableOutcome(e)

\* the operation fails retryably on its first k invocations and then succeeds
FailsThenSucceeds(k) ==
    /\ \A i \in 1..k : RetryableOutcome(script[i])
    /\ script[k + 1] = NilErr

\* C7: if the operation fails with a retryable error on its first k
\* invocations and then succeeds, the budget is at least k+1 and the context
\* is not cancelled, the engine never invokes the operation more than k+1
\* times and returns nil after exactly k+1 invocations.
C7_SucceedsAfterKFailures ==
    \A k \in 0..(MaxAttempts - 1) :
        (FailsThenSucceeds(k) /\ rArg >= k + 1 /\ ~ctxDone) =>
            /\ rCalls <= k + 1
            /\ rPc = "done" => (rRet = NilErr /\ rCalls = k + 1)

\* budget 4, two service failures, success on the third invocation
C7_Witness ==
    /\ rPc = "done" /\ ~ctxDone /\ rArg = 4
    /\ script[1] = iamError("ServiceFailure") /\ script[2] = iamError("ServiceFailure")
    /\ script[3] = NilErr
    /\ rCalls = 3 /\ rRet = NilErr /\ Len(rWaits) = 2

\* C8: when an invocation returns a non-retryable error the engine returns
\* that error at once: no further invocation, no backoff wait after it; an
\* operation that fails non-retryably from the start is invoked exactly once
\* whatever the budget.
C8_StopsOnNonRetryable ==
    /\ \A n \in 1..MaxAttempts :
          (FatalOutcome(script[n]) /\ rCalls >= n) =>
              /\ rPc = "done"
              /\ rCalls = n
              /\ rRet = script[n]
              /\ Len(rWaits) = n - 1
    /\ (rPc = "done" /\ FatalOutcome(script[1])) =>
          (rCalls = 1 /\ rRet = script[1] /\ rWaits = << >>)

\* budget 4: a retryable failure, then a non-retryable error on the second
\* invocation, which is returned after one wait
C8_Witness ==
    /\ rPc = "done" /\ rArg = 4
    /\ script[1] = iamError("NoSuchEntity") /\ script[2] = PlainErr
    /\ script[3] = NilErr
    /\ rCalls = 2 /\ rRet = PlainErr /\ Len(rWaits) = 1

\* C9: with budget N >= 1, an operation that fails retryably on every
\* invocation and a context that is not cancelled, the engine invokes the
\* operation exactly N times and returns the error of the N-th invocation.
C9_ExhaustedReturnsLastError ==
    (/\ rPc = "done" /\ ~ctxDone /\ rArg >= 1
     /\ \A i \in 1..rArg : RetryableOutcome(script[i]))
    => (rCalls = rArg /\ rRet = script[rArg])

\* budget 3 exhausted; the last error differs from the earlier ones
C9_Witness ==
    /\ rPc = "done" /\ ~ctxDone /\ rArg = 3
    /\ script[1] = iamError("NoSuchEntity") /\ script[2] = iamError("NoSuchEntity")
    /\ script[3] = iamError("ServiceFailure")
    /\ rCalls = 3 /\ rRet = iamError("ServiceFailure")

\* C10 as stated: once the context is cancelled while the engine waits on a
\* running backoff timer, the operation is never invoked again and the engine
\* returns the context's error.
C10_CancelDuringWaitStopsEngine ==
    cancelAt >= 0 =>
        /\ rCalls = cancelAt
        /\ rPc = "done" => rRet = CtxErr

\* C10 amended: when the select of a wait is decided with the context
\* cancelled and the timer not expired, the engine returns the context's own
\* error without invoking the operation again (with both channels ready the
\* select may take the timer case and go on); a run that returned the
\* context's error stays ended.
C10_CancelSeenBeforeTimer ==
    [][/\ (rPc = "select" /\ ctxDone /\ ~timerFired /\ rPc' # "select")
            => (rPc' = "done" /\ rRet' = CtxErr /\ rCalls' = rCalls)
       /\ (rPc = "done" /\ rRet = CtxErr)
            => (rPc' = "done" /\ rRet' = CtxErr /\ rCalls' = rCalls)]_vars

\* cancelled during the first wait, timer still running: the context's error
\* came back although the operation had failed with a service failure
C10_Witness ==
    /\ rPc = "done" /\ rRet = CtxErr /\ ~timerFired
    /\ cancelAt = 1 /\ rCalls = 1 /\ rLastErr = iamError("ServiceFailure")

-----------------------------------------------------------------------------
(* Properties of the retry engine over an operation that always fails *)

\* the errors of the Unwrap chain of e, e included
RECURSIVE ErrorChain(_)
ErrorChain(e) == IF e.typ = "wrapError" THEN {e} \cup ErrorChain(e.inner) ELSE {e}

\* e is, or wraps, an API error whose code is one of codes
IsOrWrapsApiCode(e, codes) ==
    \E x \in ErrorChain(e) : x.typ = "iamError" /\ x.code \in codes

RECURSIVE SumSeq(_)
SumSeq(q) == IF q = << >> THEN 0 ELSE Head(q) + SumSeq(Tail(q))

\* C11: the wait before the i-th retry is min(200ms * 2^(i-1), 2000ms), so
\* no wait exceeds 2000ms, and a run with budget 5 whose operation fails
\* retryably every time and whose context is not cancelled waits four
\* times, 3000ms in total.
C11_BackoffSchedule ==
    /\ \A i \in 1..Len(rWaits) :
          /\ rWaits[i] = (IF 200 * 2^(i - 1) < 2000 THEN 200 * 2^(i - 1) ELSE 2000)
          /\ rWaits[i] <= 2000
    /\ (/\ rPc = "done" /\ ~ctxDone /\ rArg = 5
        /\ IsOrWrapsApiCode(script[1], RetryableCodes))
       => (Len(rWaits) = 4 /\ SumSeq(rWaits) = 3000)

\* budget 6 exhausted: the fifth wait is the capped one
C11_Witness ==
    /\ rPc = "done" /\ ~ctxDone /\ rArg = 6 /\ rCalls = 6
    /\ rWaits = <<200, 400, 800, 1600, 2000>>

\* C12: a budget below 1 behaves as budget 1 does: the operation is invoked
\* at most once, no wait is started, and the run ends after exactly one
\* invocation with the result of that invocation.
C12_BudgetBelowOneIsOne ==
    rArg <= 1 =>
        /\ rCalls <= 1
        /\ rWaits = << >>
        /\ rPc = "done" => (rCalls = 1 /\ rRet = script[1])

\* budget -1, a retryable failure: invoked once, that failure returned
C12_Witness ==
    /\ rPc = "done" /\ rArg = -1 /\ rAttempts = 1
    /\ script[1] = iamError("ServiceFailure")
    /\ rCalls = 1 /\ rRet = iamError("ServiceFailure") /\ rWaits = << >>

\* C13: isRetryableIAMError(e) holds exactly when e is, or wraps, an API
\* error with code NoSuchEntity, ServiceFailure, HTTP500 or HTTP503; and the
\* engine treats the error of an invocation as retryable (records it as
\* lastErr and goes on to wait or to exhaust the budget) exactly in that case.
C13_RetryableIffFourCodes ==
    LET e == script[1]
        four == IsOrWrapsApiCode(e, {"NoSuchEntity", "ServiceFailure", "HTTP500", "HTTP503"})
    IN  /\ isRetryableIAMError(e) <=> four
        /\ (rCalls >= 1 /\ e # NilErr) =>
              /\ (rLastErr = e) <=> four
              /\ (rPc = "done" /\ rCalls = 1 /\ rRet = e /\ rWaits = << >>
                     /\ rLastErr = NilErr) <=> ~four

\* a doubly wrapped HTTP503 was retried
C13_Witness ==
    /\ script[1] = wrapError("op", wrapError("op", iamError("HTTP503")))
    /\ rCalls = 2 /\ rLastErr = script[1] /\ rWaits = <<200>>

-----------------------------------------------------------------------------
(* The HTTP layer of the client: doSignedRequest and parseAPIError         *)
(* (client.go:285-380), and the answers a backend can give.                *)

\* iamError{Code: c, Message: m}
iamErrorMsg(c, m) == [typ |-> "iamError", code |-> c, msg |-> m]

\* the result elements of an XML body: the element that holds them and
\* their content; NoPayload = none
NoPayload == [op |-> "none"]

\* a response body.  kind is "empty", "text" (not XML) or "xml"; of an XML
\* body, errCode/errMsg are <Error><Code> and <Error><Message>, code/msg the
\* top-level <Code> and <Message> ("" = absent)
Body(kind, errCode, errMsg, code, msg, payload) ==
    [kind |-> kind, errCode |-> errCode, errMsg |-> errMsg, code |-> code,
     msg |-> msg, payload |-> payload]

EmptyBody == Body("empty", "", "", "", "", NoPayload)
TextBody == Body("text", "", "", "", "", NoPayload)
BareXmlBody == Body("xml", "", "", "", "", NoPayload)

PaddedBody == Body("padded", "", "", "", "", NoPayload)

\* string(data): the raw body as a sequence of runs of characters, a run of
\* white space being " "
RawText(body) ==
    IF body.kind = "empty" THEN << >>
    ELSE IF body.kind = "text" THEN <<"Not Found">>
    ELSE IF body.kind = "padded" THEN <<" ", "Not Found", " ">>
    ELSE <<"<xml/>">>

\* the runs joined into one string
RECURSIVE Concat(_)
Concat(runs) == IF runs = << >> THEN "" ELSE Head(runs) \o Concat(Tail(runs))

\* strings.TrimSpace over runs: leading and trailing white space dropped
RECURSIVE TrimRuns(_)
TrimRuns(runs) ==
    IF runs = << >> THEN runs
    ELSE IF Head(runs) = " " THEN TrimRuns(Tail(runs))
    ELSE IF runs[Len(runs)] = " " THEN TrimRuns(SubSeq(runs, 1, Len(runs) - 1))
    ELSE runs

BodyTextUntrimmed(body) == Concat(RawText(body))

\* client.go:367, 378  strings.TrimSpace(string(data))
BodyText(body) == Concat(TrimRuns(RawText(body)))

\* the codes and messages the bodies of failure answers carry
NestedCodes == {"", "NoSuchEntity", "EntityAlreadyExists", "ServiceFailure",
                "NoSuchBucket", "BucketAlreadyExists", "BucketAlreadyOwnedByYou"}
TopCodes == {"", "NoSuchBucket", "EntityAlreadyExists"}
Messages == {"", "m"}

ErrorBodies ==
    {EmptyBody, TextBody, PaddedBody}
        \cup {Body("xml", ec, em, c, m, NoPayload) :
                 ec \in NestedCodes, em \in Messages, c \in TopCodes, m \in Messages}

FailureStatus == {404, 409, 500, 503}

\* an answer: the exchange fails in c.http.Do ("doErr"), while the body is
\* read ("readErr"), or yields a status and a body ("ok")
Answer(transport, status, body) ==
    [transport |-> transport, status |-> status, body |-> body]

FailureAnswers ==
    {Answer("doErr", 0, EmptyBody), Answer("readErr", 200, EmptyBody)}
        \cup {Answer("ok", st, b) : st \in FailureStatus, b \in ErrorBodies}

\* status 200 with the result elements of one API action, or with a body
\* that holds none of them (empty, not XML, other XML)
SuccessAnswers(op, vals) ==
    {Answer("ok", 200, Body("xml", "", "", "", "", [op |-> op, val |-> v])) : v \in vals}
        \cup {Answer("ok", 200, b) : b \in {EmptyBody, TextBody, BareXmlBody}}

parseAPIErrorNestedOnly(status, body) ==
    IF body.kind = "xml" /\ (body.errCode # "" \/ body.errMsg # "")
    THEN iamErrorMsg(IF body.errCode = "" THEN "HTTP" \o ToString(status) ELSE body.errCode,
                     IF body.errMsg = "" THEN BodyText(body) ELSE body.errMsg)
    ELSE iamErrorMsg("HTTP" \o ToString(status), BodyText(body))

\* client.go:341-380
parseAPIError(status, body) ==
    LET fallback == iamErrorMsg("HTTP" \o ToString(status), BodyText(body)) IN
    IF body.kind # "xml" THEN fallback
    ELSE
        LET envCode == IF body.errCode = "" THEN body.code ELSE body.errCode
            envMsg == IF body.errMsg = "" THEN body.msg ELSE body.errMsg
            code == IF envCode = "" THEN body.code ELSE envCode
            msg == IF envMsg = "" THEN body.msg ELSE envMsg
        IN  IF code # "" \/ msg # ""
            THEN iamErrorMsg(IF code = "" THEN "HTTP" \o ToString(status) ELSE code,
                             IF msg = "" THEN BodyText(body) ELSE msg)
            ELSE fallback

\* client.go:285-339 from c.http.Do on: the error and the data returned for
\* an answer; hasOut = (out != nil)
doSignedRequestConflictIsSuccess(a, hasOut) ==
    IF a.transport = "doErr" THEN [err |-> TransportErr, data |-> EmptyBody]
    ELSE IF a.transport = "readErr" THEN [err |-> ReadBodyErr, data |-> EmptyBody]
    ELSE IF a.status >= 400 /\ a.status # 409
    THEN [err |-> parseAPIError(a.status, a.body), data |-> EmptyBody]
    ELSE IF hasOut /\ a.body.kind # "xml" THEN [err |-> DecodeErr, data |-> EmptyBody]
    ELSE [err |-> NilErr, data |-> a.body]

doSignedRequest(a, hasOut) ==
    IF a.transport = "doErr" THEN [err |-> TransportErr, data |-> EmptyBody]
    ELSE IF a.transport = "readErr" THEN [err |-> ReadBodyErr, data |-> EmptyBody]
    ELSE IF a.status >= 400 THEN [err |-> parseAPIError(a.status, a.body), data |-> EmptyBody]
    ELSE IF hasOut /\ a.body.kind # "xml" THEN [err |-> DecodeErr, data |-> EmptyBody]
    ELSE [err |-> NilErr, data |-> a.body]

\* xml.Unmarshal(data, out) on an XML body: the elements under the path of
\* out's struct tags, or out left at its zero value
Decode(data, op, zero) ==
    IF data.payload.op = op THEN data.payload.val ELSE zero

-----------------------------------------------------------------------------
(* Policy documents (strings) and policy_json.go                          *)

\* a JSON value: a string, or the integer literal hi * 2^53 + lo
JString(str) == [typ |-> "string", s |-> str]
JNumber(hi, lo) == [typ |-> "number", hi |-> hi, lo |-> lo]

\* a string holding a policy document.  form: "json" (a JSON object whose
\* members, <<key, value>> pairs, appear in the order of members; ws = it
\* holds insignificant whitespace), "percent" (the same, percent-encoded),
\* "badescape" (holds an invalid % escape; not JSON), "text" (the text x;
\* not JSON), "blank" (white space only) or "empty"; ws of a string that is
\* not JSON = it is padded with white space on both sides
PolicyString(form, members, ws) == [form |-> form, members |-> members, ws |-> ws]

EmptyString == PolicyString("empty", << >>, FALSE)

JsonDocs ==
    {PolicyString("json", m, w) :
        m \in {<< <<1, JString("Allow")>>, <<2, JString("*")>> >>,
               << <<2, JString("*")>>, <<1, JString("Allow")>> >>,
               << <<1, JString("Deny")>>, <<2, JString("*")>> >>},
        w \in BOOLEAN}

\* url.QueryUnescape as used at client.go:236-240: the decoded string, or
\* the input itself when it holds an invalid escape
QueryUnescapeOrSame(str) ==
    IF str.form = "percent" THEN PolicyString("json", str.members, str.ws) ELSE str

TrimSpaceNone(str) == str

\* strings.TrimSpace: the padding of a string that is not JSON goes, a
\* blank string becomes the empty one (the white space of a JSON string
\* lies between its tokens)
TrimSpace(str) ==
    IF str.form = "blank" THEN EmptyString
    ELSE IF str.form \in {"text", "badescape"} THEN PolicyString(str.form, str.members, FALSE)
    ELSE str

\* json.Unmarshal into any stores a number as float64: an integer below
\* 2^53 is kept, one in 2^53..2^54 is rounded to the nearest even integer,
\* ties to the one with the even mantissa; json.Marshal prints it in full
Float64(v) ==
    IF v.typ # "number" \/ v.hi = 0 \/ v.lo % 2 = 0 THEN v
    ELSE IF ((v.lo - 1) \div 2) % 2 = 0 THEN JNumber(v.hi, v.lo - 1)
    ELSE JNumber(v.hi, v.lo + 1)

\* the members of a JSON object as json.Unmarshal stores them
Unmarshal(members) ==
    [i \in 1..Len(members) |-> <<members[i][1], Float64(members[i][2])>>]

\* policy_json.go:8-20  json.Unmarshal then json.Marshal: members sorted by
\* key, no whitespace; ok = FALSE when the string is not JSON
normalizeJSONString(raw) ==
    IF raw.form = "json"
    THEN [ok |-> TRUE,
          str |-> PolicyString("json",
                               SortSeq(Unmarshal(raw.members), LAMBDA x, y : x[1] < y[1]),
                               FALSE)]
    ELSE [ok |-> FALSE, str |-> EmptyString]

\* policy_json.go:22-30
policiesSemanticallyEqual(a, b) ==
    LET na == normalizeJSONString(a)
        nb == normalizeJSONString(b)
    IN  IF ~na.ok \/ ~nb.ok THEN TrimSpace(a) = TrimSpace(b)
        ELSE na.str = nb.str

-----------------------------------------------------------------------------
(* The typed client calls (client.go:137-269): error and decoded result   *)

ZeroUser == [UserName |-> "", Arn |-> "", UserID |-> "", Path |-> ""]

\* users a backend reports: with and without a Path element
RemoteUsers ==
    {[UserName |-> "alice", Arn |-> "arn:aws:iam:::user/alice", UserID |-> "alice", Path |-> pa] :
        pa \in {"/", ""}}

\* client.go:137-152
CreateUser(a) ==
    LET r == doSignedRequest(a, TRUE) IN
    IF r.err # NilErr THEN [err |-> r.err, out |-> ZeroUser]
    ELSE [err |-> NilErr, out |-> Decode(r.data, "CreateUserResult", ZeroUser)]

\* client.go:154-165
GetUser(a) ==
    LET r == doSignedRequest(a, TRUE) IN
    IF r.err # NilErr THEN [err |-> r.err, out |-> ZeroUser]
    ELSE [err |-> NilErr, out |-> Decode(r.data, "GetUserResult", ZeroUser)]

NoKeys == [items |-> << >>]

KeyMetadata(id, status) == [AccessKeyID |-> id, Status |-> status]

\* key lists a backend reports
RemoteKeyLists ==
    {[items |-> q] : q \in {<<KeyMetadata("k1", "Active")>>,
                            <<KeyMetadata("k2", "Active")>>,
                            <<KeyMetadata("k2", "Active"), KeyMetadata("k1", "Inactive")>>}}

ListAccessKeysWrongPath(a) ==
    LET r == doSignedRequest(a, TRUE) IN
    IF r.err # NilErr THEN [err |-> r.err, out |-> NoKeys]
    ELSE [err |-> NilErr, out |-> Decode(r.data, "AccessKeyMetadata", NoKeys)]

\* client.go:190-201
ListAccessKeys(a) ==
    LET r == doSignedRequest(a, TRUE) IN
    IF r.err # NilErr THEN [err |-> r.err, out |-> NoKeys]
    ELSE [err |-> NilErr, out |-> Decode(r.data, "ListAccessKeysResult", NoKeys)]

NoDocument == [PolicyDocument |-> EmptyString]

\* policy documents a backend reports: JSON, plain or percent-encoded, or a
\* string with a broken escape
RemoteDocuments ==
    {[PolicyDocument |-> str] :
        str \in JsonDocs
                  \cup {PolicyString("percent", x.members, x.ws) : x \in JsonDocs}
                  \cup {PolicyString("badescape", << >>, FALSE)}}

\* client.go:224-241
GetUserPolicy(a) ==
    LET r == doSignedRequest(a, TRUE) IN
    IF r.err # NilErr THEN [err |-> r.err, out |-> EmptyString]
    ELSE [err |-> NilErr,
          out |-> QueryUnescapeOrSame(
                      Decode(r.data, "GetUserPolicyResult", NoDocument).PolicyDocument)]

\* client.go:259-263
HeadBucket(a) == doSignedRequest(a, FALSE).err

\* client.go:253-257
CreateBucket(a) == doSignedRequest(a, FALSE).err

\* iamAccessKey (client.go:68-73)
AccessKey(user, id, status, secret) ==
    [UserName |-> user, AccessKeyID |-> id, Status |-> status, SecretAccessKey |-> secret]

ZeroAccessKey == AccessKey("", "", "", "")

CreateAccessKeyKeepsOut(a) ==
    [err |-> doSignedRequest(a, TRUE).err,
     out |-> Decode(a.body, "CreateAccessKeyResult", ZeroAccessKey)]

\* client.go:176-188
CreateAccessKey(a) ==
    LET r == doSignedRequest(a, TRUE) IN
    IF r.err # NilErr THEN [err |-> r.err, out |-> ZeroAccessKey]
    ELSE [err |-> NilErr, out |-> Decode(r.data, "CreateAccessKeyResult", ZeroAccessKey)]

\* client.go:167-174
DeleteUser(a) == doSignedRequest(a, FALSE).err

\* client.go:203-211
DeleteAccessKey(a) == doSignedRequest(a, FALSE).err

\* client.go:213-222
PutUserPolicy(a) == doSignedRequest(a, FALSE).err

\* client.go:243-251
DeleteUserPolicy(a) == doSignedRequest(a, FALSE).err

\* client.go:265-269
DeleteBucket(a) == doSignedRequest(a, FALSE).err

-----------------------------------------------------------------------------
(* Resource handlers: one invocation of a Read or Create handler against  *)
(* a backend that answers each request in any of the ways above.          *)

\* error.Error(): iamError.Error (client.go:81-86), fmt.Errorf("%s: %w")
RECURSIVE ErrorText(_)
ErrorText(err) ==
    IF err.typ = "iamError"
    THEN IF err.code = "" /\ err.msg = "" THEN "unknown IAM error"
         ELSE err.code \o ": " \o err.msg
    ELSE IF err.typ = "wrapError" THEN err.code \o ": " \o ErrorText(err.inner)
    ELSE err.code

\* resp.Diagnostics.AddError(summary, err.Error())
DiagnosticCodeOnly(summary, err) == [summary |-> summary, detail |-> err.code]

Diagnostic(summary, err) == [summary |-> summary, detail |-> ErrorText(err)]

\* an entry of httpLog: the client call, the answer it got, the error it returned
Exchange(op, a, err) == [op |-> op, answer |-> a, err |-> err]

\* tag maps of a bucket
TagSets == {{}, {<<"env", "dev">>}}

\* GetBucketTags (part_001:296-312) goes through the S3 SDK client: it
\* yields a tag map (the empty one on NoSuchTagSet) or the SDK's error wrapped
GetBucketTagsOutcomes ==
    {[err |-> NilErr, tags |-> t] : t \in TagSets}
        \cup {[err |-> wrapError("get bucket tagging",
                                 [typ |-> "smithyAPIError", code |-> "InternalError"]),
               tags |-> {}]}

\* PutBucketTags (part_001:314-340) goes through the S3 SDK client too: nil
\* or the SDK's error wrapped
PutBucketTagsOutcomes ==
    {NilErr, wrapError("put bucket tagging",
                       [typ |-> "smithyAPIError", code |-> "InternalError"])}

\* DeleteBucketTags (part_001:342-350): nil, or the SDK's error wrapped
DeleteBucketTagsOutcomes ==
    {NilErr, wrapError("delete bucket tagging",
                       [typ |-> "smithyAPIError", code |-> "NoSuchBucket"])}

ReadKinds == {"iamUserRead", "iamAccessKeyRead", "iamUserPolicyRead", "bucketRead"}
CreateKinds == {"iamUserCreate", "iamAccessKeyCreate", "iamUserPolicyCreate", "bucketCreate"}
UpdateKinds == {"iamUserPolicyUpdate", "bucketUpdate"}
DeleteKinds == {"iamUserDelete", "iamAccessKeyDelete", "iamUserPolicyDelete", "bucketDelete"}
HandlerKinds == ReadKinds \cup CreateKinds \cup UpdateKinds \cup DeleteKinds

\* the policy documents of a plan
PlannedDocs ==
    {PolicyString("json", << <<1, JString("Allow")>>, <<2, JString("*")>> >>, w) :
        w \in BOOLEAN}

\* req.State of a Read (a user as recorded by Create, or as imported: id and
\* name only), req.Plan of a Create
HandlerRequests(kind) ==
    IF kind = "iamUserRead"
    THEN {[kind |-> "iam_user", id |-> "alice", name |-> "alice", path |-> pa,
           arn |-> ar, unique_id |-> ar] :
             pa \in {"/", ""}, ar \in {"arn:aws:iam:::user/alice", ""}}
    ELSE IF kind = "iamAccessKeyRead"
    THEN {[kind |-> "iam_access_key", id |-> "k1", user_name |-> "alice",
           access_key_id |-> "k1", status |-> "Active", secret_access_key |-> "s1"],
          [kind |-> "iam_access_key", id |-> "k1", user_name |-> "alice",
           access_key_id |-> "k1", status |-> "", secret_access_key |-> ""]}
    ELSE IF kind = "iamUserPolicyRead"
    THEN {[kind |-> "iam_user_policy", id |-> "alice:p", user_name |-> "alice",
           name |-> "p", policy |-> doc] : doc \in JsonDocs}
    ELSE IF kind = "bucketRead"
    THEN {[kind |-> "bucket", id |-> "b", bucket |-> "b", arn |-> "arn:aws:s3:::b",
           tags |-> t] : t \in TagSets}
         \cup {[kind |-> "bucket", id |-> "b", bucket |-> "b", arn |-> "", tags |-> {}]}
    ELSE IF kind \in {"bucketCreate", "bucketUpdate"}
    THEN {[kind |-> "bucket_plan", bucket |-> "b", tags |-> t] : t \in TagSets}
    ELSE IF kind = "iamAccessKeyCreate"
    THEN {[kind |-> "iam_access_key_plan", user_name |-> "alice"]}
    ELSE IF kind \in {"iamUserPolicyCreate", "iamUserPolicyUpdate"}
    THEN {[kind |-> "iam_user_policy_plan", user_name |-> "alice", name |-> "p",
           policy |-> doc] : doc \in PlannedDocs}
    ELSE IF kind = "iamUserDelete"
    THEN {[kind |-> "iam_user", id |-> "alice", name |-> "alice", path |-> "/",
           arn |-> "arn:aws:iam:::user/alice", unique_id |-> "uid-123"]}
    ELSE IF kind = "iamAccessKeyDelete"
    THEN {[kind |-> "iam_access_key", id |-> "k1", user_name |-> "alice",
           access_key_id |-> "k1", status |-> "Active", secret_access_key |-> "s1"]}
    ELSE IF kind = "iamUserPolicyDelete"
    THEN {[kind |-> "iam_user_policy", id |-> "alice:p", user_name |-> "alice",
           name |-> "p", policy |-> doc] : doc \in PlannedDocs}
    ELSE IF kind = "bucketDelete"
    THEN {[kind |-> "bucket", id |-> "b", bucket |-> "b", arn |-> "arn:aws:s3:::b",
           tags |-> {}]}
    ELSE {[kind |-> "iam_user_plan", name |-> "alice", path |-> pa] : pa \in {"/", ""}}

\* resp.State when the framework calls the handler: req.State for a Read and
\* a Delete, the prior state for an Update, null for a Create
EntryState(kind, req) ==
    IF kind \in ReadKinds \cup DeleteKinds THEN req
    ELSE IF kind = "iamUserPolicyUpdate"
    THEN [kind |-> "iam_user_policy", id |-> req.user_name \o ":" \o req.name,
          user_name |-> req.user_name, name |-> req.name,
          policy |-> PolicyString("json", << <<1, JString("Deny")>>, <<2, JString("*")>> >>,
                                  FALSE)]
    ELSE IF kind = "bucketUpdate"
    THEN [kind |-> "bucket", id |-> req.bucket, bucket |-> req.bucket,
          arn |-> "arn:aws:s3:::" \o req.bucket, tags |-> {}]
    ELSE NullState

\* the framework calls a handler
HandlerEntry ==
    /\ hPc = "ready"
    /\ hKind \in HandlerKinds
    /\ hReq \in HandlerRequests(hKind)
    /\ tfState = EntryState(hKind, hReq)
    /\ diags = << >>
    /\ stateOps = << >>
    /\ httpLog = << >>

\* resp.State.RemoveResource(ctx); return
RemoveResource ==
    /\ tfState' = NullState
    /\ stateOps' = Append(stateOps, "RemoveResource")
    /\ UNCHANGED diags

\* resp.Diagnostics.AddError(summary, err.Error()); return
AddError(summary, err) ==
    /\ diags' = Append(diags, Diagnostic(summary, err))
    /\ UNCHANGED <<tfState, stateOps>>

\* resp.Diagnostics.Append(resp.State.Set(ctx, &state)...)
StateSet(state) ==
    /\ tfState' = state
    /\ stateOps' = Append(stateOps, "Set")
    /\ UNCHANGED diags

\* resource_iam_user.go:136-171
iamUserRead ==
    /\ hPc = "ready" /\ hKind = "iamUserRead"
    /\ \E a \in FailureAnswers \cup SuccessAnswers("GetUserResult", RemoteUsers) :
         LET r == GetUser(a)
             user == r.out
             userPath == IF user.Path # "" THEN user.Path
                         ELSE IF hReq.path # "" THEN hReq.path ELSE "/"
         IN  /\ httpLog' = Append(httpLog, Exchange("GetUser", a, r.err))
             /\ IF r.err # NilErr
                THEN IF isNoSuchEntityError(r.err)
                     THEN RemoveResource
                     ELSE AddError("Failed to read IAM user", r.err)
                ELSE StateSet([hReq EXCEPT !.id = user.UserName, !.name = user.UserName,
                                           !.path = userPath, !.arn = user.Arn,
                                           !.unique_id = user.UserID])
    /\ hPc' = "done"
    /\ UNCHANGED <<hKind, hReq>>

\* resource_iam_access_key.go:128-134  the status of the first key with the
\* id, or found = FALSE
FindKey(items, id) ==
    LET hits == {i \in 1..Len(items) : items[i].AccessKeyID = id} IN
    IF hits = {} THEN [found |-> FALSE, status |-> ""]
    ELSE [found |-> TRUE,
          status |-> items[CHOOSE i \in hits : \A j \in hits : i <= j].Status]

\* resource_iam_access_key.go:109-143
iamAccessKeyReadFromListing ==
    /\ hPc = "ready" /\ hKind = "iamAccessKeyRead"
    /\ \E a \in FailureAnswers \cup SuccessAnswers("ListAccessKeysResult", RemoteKeyLists) :
         LET r == ListAccessKeys(a)
             k == FindKey(r.out.items, hReq.access_key_id)
         IN  /\ httpLog' = Append(httpLog, Exchange("ListAccessKeys", a, r.err))
             /\ IF r.err # NilErr
                THEN IF isNoSuchEntityError(r.err)
                     THEN RemoveResource
                     ELSE AddError("Failed to read IAM access key", r.err)
                ELSE IF ~k.found
                THEN RemoveResource
                ELSE StateSet([hReq EXCEPT !.id = hReq.access_key_id, !.status = k.status,
                                           !.secret_access_key = ""])
    /\ hPc' = "done"
    /\ UNCHANGED <<hKind, hReq>>

iamAccessKeyRead ==
    /\ hPc = "ready" /\ hKind = "iamAccessKeyRead"
    /\ \E a \in FailureAnswers \cup SuccessAnswers("ListAccessKeysResult", RemoteKeyLists) :
         LET r == ListAccessKeys(a)
             k == FindKey(r.out.items, hReq.access_key_id)
         IN  /\ httpLog' = Append(httpLog, Exchange("ListAccessKeys", a, r.err))
             /\ IF r.err # NilErr
                THEN IF isNoSuchEntityError(r.err)
                     THEN RemoveResource
                     ELSE AddError("Failed to read IAM access key", r.err)
                ELSE IF ~k.found
                THEN RemoveResource
                ELSE StateSet([hReq EXCEPT !.id = hReq.access_key_id, !.status = k.status])
    /\ hPc' = "done"
    /\ UNCHANGED <<hKind, hReq>>

\* resource_iam_user_policy.go:102-122
iamUserPolicyRead ==
    /\ hPc = "ready" /\ hKind = "iamUserPolicyRead"
    /\ \E a \in FailureAnswers \cup SuccessAnswers("GetUserPolicyResult", RemoteDocuments) :
         LET r == GetUserPolicy(a) IN
             /\ httpLog' = Append(httpLog, Exchange("GetUserPolicy", a, r.err))
             /\ IF r.err # NilErr
                THEN IF isNoSuchEntityError(r.err)
                     THEN RemoveResource
                     ELSE AddError("Failed to read IAM user policy", r.err)
                ELSE StateSet([hReq EXCEPT !.id = hReq.user_name \o ":" \o hReq.name,
                                           !.policy = r.out])
    /\ hPc' = "done"
    /\ UNCHANGED <<hKind, hReq>>

\* policy_json.go:164-195 (bucketResource.Read)
bucketRead ==
    /\ hPc = "ready" /\ hKind = "bucketRead"
    /\ \E a \in FailureAnswers \cup SuccessAnswers("none", {}), t \in GetBucketTagsOutcomes :
         LET err == HeadBucket(a) IN
             /\ httpLog' = Append(httpLog, Exchange("HeadBucket", a, err))
             /\ IF err # NilErr
                THEN IF isNoSuchBucketError(err)
                     THEN RemoveResource
                     ELSE AddError("Failed to read bucket", err)
                ELSE IF t.err # NilErr
                THEN AddError("Failed to read bucket tags", t.err)
                ELSE StateSet([hReq EXCEPT !.id = hReq.bucket,
                                           !.arn = "arn:aws:s3:::" \o hReq.bucket,
                                           !.tags = t.tags])
    /\ hPc' = "done"
    /\ UNCHANGED <<hKind, hReq>>

\* resource_iam_user.go:96-134; withUserLock hands back the error of its
\* body (provider.go:45)
iamUserCreate ==
    /\ hPc = "ready" /\ hKind = "iamUserCreate"
    /\ \E a \in FailureAnswers \cup SuccessAnswers("CreateUserResult", RemoteUsers) :
         LET r == CreateUser(a)
             user == r.out
             userPath == IF user.Path # "" THEN user.Path
                         ELSE IF hReq.path # "" THEN hReq.path ELSE "/"
         IN  /\ httpLog' = Append(httpLog, Exchange("CreateUser", a, r.err))
             /\ IF r.err # NilErr
                THEN AddError("Failed to create IAM user", r.err)
                ELSE StateSet([kind |-> "iam_user", id |-> user.UserName,
                               name |-> user.UserName, path |-> userPath,
                               arn |-> user.Arn, unique_id |-> user.UserID])
    /\ hPc' = "done"
    /\ UNCHANGED <<hKind, hReq>>

\* answers to the HEAD request by which Create verifies an existing bucket
\* (a HEAD answer has no body)
VerifyAnswers ==
    {Answer("ok", 200, EmptyBody), Answer("ok", 404, EmptyBody),
     Answer("ok", 503, EmptyBody), Answer("doErr", 0, EmptyBody)}

\* policy_json.go:112-162 (bucketResource.Create)
bucketCreate ==
    /\ hPc = "ready" /\ hKind = "bucketCreate"
    /\ \E a \in FailureAnswers \cup SuccessAnswers("none", {}),
          h \in VerifyAnswers,
          putErr \in PutBucketTagsOutcomes,
          t \in GetBucketTagsOutcomes :
         LET err == CreateBucket(a)
             headErr == HeadBucket(h)
             created == <<Exchange("CreateBucket", a, err)>>
             verified == Append(created, Exchange("HeadBucket", h, headErr))
         IN  IF err # NilErr /\ ~isBucketAlreadyExistsError(err)
             THEN /\ httpLog' = httpLog \o created
                  /\ AddError("Failed to create bucket", err)
             ELSE IF err # NilErr /\ headErr # NilErr
             THEN /\ httpLog' = httpLog \o verified
                  /\ AddError("Failed to verify existing bucket", headErr)
             ELSE /\ httpLog' = httpLog \o (IF err # NilErr THEN verified ELSE created)
                  /\ IF hReq.tags # {} /\ putErr # NilErr
                     THEN AddError("Failed to set bucket tags", putErr)
                     ELSE IF t.err # NilErr
                     THEN AddError("Failed to read bucket tags", t.err)
                     ELSE StateSet([kind |-> "bucket", id |-> hReq.bucket,
                                    bucket |-> hReq.bucket,
                                    arn |-> "arn:aws:s3:::" \o hReq.bucket,
                                    tags |-> t.tags])
    /\ hPc' = "done"
    /\ UNCHANGED <<hKind, hReq>>

\* resource_iam_access_key.go:81-107
iamAccessKeyCreate ==
    /\ hPc = "ready" /\ hKind = "iamAccessKeyCreate"
    /\ \E a \in FailureAnswers
                  \cup SuccessAnswers("CreateAccessKeyResult",
                                      {AccessKey("alice", "k1", "Active", "s1")}) :
         LET r == CreateAccessKey(a)
             k == r.out
         IN  /\ httpLog' = Append(httpLog, Exchange("CreateAccessKey", a, r.err))
             /\ IF r.err # NilErr
                THEN AddError("Failed to create IAM access key", r.err)
                ELSE StateSet([kind |-> "iam_access_key", id |-> k.AccessKeyID,
                               user_name |-> hReq.user_name,
                               access_key_id |-> k.AccessKeyID,
                               status |-> k.Status,
                               secret_access_key |-> k.SecretAccessKey])
    /\ hPc' = "done"
    /\ UNCHANGED <<hKind, hReq>>

\* resource_iam_user_policy.go:79-100 (Create) and 124-145 (Update): the two
\* differ in the summary of the diagnostic
PutPolicyHandlerIdIsName(kind, summary) ==
    /\ hPc = "ready" /\ hKind = kind
    /\ \E a \in FailureAnswers \cup SuccessAnswers("none", {}) :
         LET err == PutUserPolicy(a) IN
             /\ httpLog' = Append(httpLog, Exchange("PutUserPolicy", a, err))
             /\ IF err # NilErr
                THEN AddError(summary, err)
                ELSE StateSet([kind |-> "iam_user_policy", id |-> hReq.name,
                               user_name |-> hReq.user_name, name |-> hReq.name,
                               policy |-> hReq.policy])
    /\ hPc' = "done"
    /\ UNCHANGED <<hKind, hReq>>

PutPolicyHandler(kind, summary) ==
    /\ hPc = "ready" /\ hKind = kind
    /\ \E a \in FailureAnswers \cup SuccessAnswers("none", {}) :
         LET err == PutUserPolicy(a) IN
             /\ httpLog' = Append(httpLog, Exchange("PutUserPolicy", a, err))
             /\ IF err # NilErr
                THEN AddError(summary, err)
                ELSE StateSet([kind |-> "iam_user_policy",
                               id |-> hReq.user_name \o ":" \o hReq.name,
                               user_name |-> hReq.user_name, name |-> hReq.name,
                               policy |-> hReq.policy])
    /\ hPc' = "done"
    /\ UNCHANGED <<hKind, hReq>>

iamUserPolicyCreate == PutPolicyHandler("iamUserPolicyCreate", "Failed to create IAM user policy")

iamUserPolicyUpdate == PutPolicyHandler("iamUserPolicyUpdate", "Failed to update IAM user policy")

\* policy_json.go:197-240 (bucketResource.Update); the tag calls go through
\* the S3 SDK client and leave no entry in httpLog
bucketUpdate ==
    /\ hPc = "ready" /\ hKind = "bucketUpdate"
    /\ \E delErr \in DeleteBucketTagsOutcomes,
          putErr \in PutBucketTagsOutcomes,
          t \in GetBucketTagsOutcomes :
         IF hReq.tags = {} /\ delErr # NilErr /\ ~isNoSuchBucketError(delErr)
         THEN AddError("Failed to delete bucket tags", delErr)
         ELSE IF hReq.tags # {} /\ putErr # NilErr
         THEN AddError("Failed to update bucket tags", putErr)
         ELSE IF t.err # NilErr
         THEN AddError("Failed to read bucket tags", t.err)
         ELSE StateSet([kind |-> "bucket", id |-> hReq.bucket, bucket |-> hReq.bucket,
                        arn |-> "arn:aws:s3:::" \o hReq.bucket, tags |-> t.tags])
    /\ hPc' = "done"
    /\ UNCHANGED <<hKind, hReq, httpLog>>

\* the client call a Delete handler makes
DeleteCall(op, a) ==
    IF op = "DeleteUser" THEN DeleteUser(a)
    ELSE IF op = "DeleteAccessKey" THEN DeleteAccessKey(a)
    ELSE IF op = "DeleteUserPolicy" THEN DeleteUserPolicy(a)
    ELSE DeleteBucket(a)

\* the test by which a Delete handler takes an error for absence:
\* isNoSuchBucketError in bucketResource.Delete, isNoSuchEntityError in the others
DeleteAbsent(op, err) ==
    IF op = "DeleteBucket" THEN isNoSuchBucketError(err) ELSE isNoSuchEntityError(err)

\* the Delete handlers: the error of the client call becomes a diagnostic
\* unless it says that the thing is gone; resp.State is left to the framework
DeleteHandlerReportsAll(kind, op, summary) ==
    /\ hPc = "ready" /\ hKind = kind
    /\ \E a \in FailureAnswers \cup SuccessAnswers("none", {}) :
         LET err == DeleteCall(op, a) IN
             /\ httpLog' = Append(httpLog, Exchange(op, a, err))
             /\ IF err # NilErr
                THEN AddError(summary, err)
                ELSE UNCHANGED <<tfState, diags, stateOps>>
    /\ hPc' = "done"
    /\ UNCHANGED <<hKind, hReq>>

DeleteHandler(kind, op, summary) ==
    /\ hPc = "ready" /\ hKind = kind
    /\ \E a \in FailureAnswers \cup SuccessAnswers("none", {}) :
         LET err == DeleteCall(op, a) IN
             /\ httpLog' = Append(httpLog, Exchange(op, a, err))
             /\ IF err # NilErr /\ ~DeleteAbsent(op, err)
                THEN AddError(summary, err)
                ELSE UNCHANGED <<tfState, diags, stateOps>>
    /\ hPc' = "done"
    /\ UNCHANGED <<hKind, hReq>>

\* resource_iam_user.go:180-195
iamUserDelete == DeleteHandler("iamUserDelete", "DeleteUser", "Failed to delete IAM user")

\* resource_iam_access_key.go:149-161
iamAccessKeyDelete ==
    DeleteHandler("iamAccessKeyDelete", "DeleteAccessKey", "Failed to delete IAM access key")

\* resource_iam_user_policy.go:147-159
iamUserPolicyDelete ==
    DeleteHandler("iamUserPolicyDelete", "DeleteUserPolicy", "Failed to delete IAM user policy")

\* policy_json.go:242-252
bucketDelete == DeleteHandler("bucketDelete", "DeleteBucket", "Failed to delete bucket")

HandlerNext ==
    /\ \/ iamUserRead
       \/ iamAccessKeyRead
       \/ iamUserPolicyRead
       \/ bucketRead
       \/ iamUserCreate
       \/ bucketCreate
       \/ iamAccessKeyCreate
       \/ iamUserPolicyCreate
       \/ iamUserPolicyUpdate
       \/ bucketUpdate
       \/ iamUserDelete
       \/ iamAccessKeyDelete
       \/ iamUserPolicyDelete
       \/ bucketDelete
    /\ UNCHANGED <<lockVars, retryVars, pureVars, backendVars>>

\* a caller either runs the retry engine over a client call that fails the
\* same way each time, or invokes a resource handler
ProviderInit ==
    \/ ConstOpInit
    \/ (LockInit /\ RetryIdle /\ HandlerEntry /\ PureIdle /\ BackendStart)

ProviderNext == RetryNext \/ HandlerNext

ProviderSpec == ProviderInit /\ [][ProviderNext]_vars

-----------------------------------------------------------------------------
(* Properties of the client layer and of the resource handlers *)

\* the handler returned without a diagnostic after removing the resource
Removed == stateOps = <<"RemoveResource">> /\ tfState = NullState /\ diags = << >>

\* the handler returned without a diagnostic after setting the state
Refreshed == stateOps = <<"Set">> /\ tfState # NullState /\ diags = << >>

\* the handler returned with one error diagnostic and resp.State as it got it
Errored ==
    /\ Len(diags) = 1 /\ stateOps = << >>
    /\ tfState = EntryState(hKind, hReq)

\* the code a backend's failure answer carries: <Error><Code>, else the
\* top-level <Code>
AnswerCode(a) ==
    IF a.transport # "ok" \/ a.status < 400 \/ a.body.kind # "xml" THEN ""
    ELSE IF a.body.errCode # "" THEN a.body.errCode ELSE a.body.code

AlreadyExistsCodes == {"EntityAlreadyExists", "BucketAlreadyOwnedByYou", "BucketAlreadyExists"}

\* C14: an already-exists error is never retried and never suppressed: the
\* retry engine over an operation that returns one invokes it once, starts
\* no wait and returns that error; a client call whose answer carries an
\* already-exists code returns an API error with that code.
C14_AlreadyExistsNeverRetried ==
    /\ (rPc # "off" /\ IsOrWrapsApiCode(script[1], AlreadyExistsCodes)) =>
          /\ rCalls <= 1
          /\ rWaits = << >>
          /\ rPc = "done" => (rCalls = 1 /\ rRet = script[1])
    /\ \A i \in 1..Len(httpLog) :
          AnswerCode(httpLog[i].answer) \in AlreadyExistsCodes =>
              /\ httpLog[i].err.typ = "iamError"
              /\ httpLog[i].err.code = AnswerCode(httpLog[i].answer)

\* budget 3, the operation answers BucketAlreadyExists: one invocation
C14_Witness ==
    /\ rPc = "done" /\ rArg = 3 /\ script[1] = iamError("BucketAlreadyExists")
    /\ rCalls = 1 /\ rRet = iamError("BucketAlreadyExists") /\ rWaits = << >>

\* a failure of the exchange itself, or of decoding its result
ExchangeFailures == {TransportErr, ReadBodyErr, DecodeErr}

\* the answer makes the client call fail in transport or in decoding
\* the client calls that pass an out value to doSignedRequest
DecodingCalls == {"CreateUser", "GetUser", "CreateAccessKey", "ListAccessKeys",
                  "GetUserPolicy"}

FailsInTransportOrDecode(x) ==
    \/ x.answer.transport # "ok"
    \/ (/\ x.answer.status < 400 /\ x.answer.body.kind # "xml"
        /\ x.op \in DecodingCalls)

KeyAbsent(x) ==
    /\ x.op = "ListAccessKeys" /\ x.err = NilErr
    /\ \A k \in {x.answer.body.payload} :
          \/ k.op # "ListAccessKeysResult"
          \/ \A i \in 1..Len(k.val.items) : k.val.items[i].AccessKeyID # hReq.access_key_id

\* C16: a Read of an IAM user, access key or inline policy whose lookup
\* fails with NoSuchEntity, or whose key id is absent from the key list,
\* removes the resource from state and reports no error diagnostic.
C16_NotFoundOnReadRemoves ==
    (hPc = "done" /\ hKind \in {"iamUserRead", "iamAccessKeyRead", "iamUserPolicyRead"}) =>
        ((IsOrWrapsApiCode(httpLog[1].err, {"NoSuchEntity"}) \/ KeyAbsent(httpLog[1]))
            => Removed)

\* the key list holds another key only: the access key is dropped from state
C16_Witness ==
    /\ hPc = "done" /\ hKind = "iamAccessKeyRead"
    /\ httpLog[1].err = NilErr
    /\ httpLog[1].answer.body.payload =
           [op |-> "ListAccessKeysResult", val |-> [items |-> <<KeyMetadata("k2", "Active")>>]]
    /\ Removed

\* C17 as stated: a bucket Read whose HEAD request is answered with status
\* 404, whatever the body, removes the bucket from state and reports no
\* error diagnostic.
C17_BucketHead404Removes ==
    (/\ hPc = "done" /\ hKind = "bucketRead"
     /\ httpLog[1].answer.transport = "ok" /\ httpLog[1].answer.status = 404)
    => Removed

\* the codes by which an answer says that the thing asked for does not exist
NotFoundCodes == {"NoSuchEntity", "NoSuchBucket", "NotFound", "NoSuchKey"}

\* C18: every Read ends in exactly one of: state refreshed, resource removed,
\* one error diagnostic with the state untouched; it removes the resource
\* only on a not-found result (a not-found code, or the key missing from
\* the list), and every other failure of a lookup ends in the error
\* diagnostic.
C18_ReadOutcomes ==
    (hPc = "done" /\ hKind \in ReadKinds) =>
        /\ Refreshed \/ Removed \/ Errored
        /\ ~(Refreshed /\ Removed) /\ ~(Refreshed /\ Errored) /\ ~(Removed /\ Errored)
        /\ Removed =>
              (IsOrWrapsApiCode(httpLog[1].err, NotFoundCodes) \/ KeyAbsent(httpLog[1]))
        /\ (httpLog[1].err # NilErr /\ ~IsOrWrapsApiCode(httpLog[1].err, NotFoundCodes))
              => Errored

\* HEAD answered 503 with a ServiceFailure body: an error diagnostic, the
\* bucket stays in state
C18_Witness ==
    /\ hPc = "done" /\ hKind = "bucketRead" /\ Errored
    /\ httpLog[1].answer = Answer("ok", 503, Body("xml", "ServiceFailure", "m", "", "", NoPayload))
    /\ diags = <<[summary |-> "Failed to read bucket", detail |-> "ServiceFailure: m"]>>

\* C19 as stated: a policy Read that finds the remote document semantically
\* equal to the one in state leaves the policy attribute of the state as it
\* was.
C19_PolicyReadKeepsEqualDocument ==
    (/\ hPc = "done" /\ hKind = "iamUserPolicyRead" /\ httpLog[1].err = NilErr
     /\ policiesSemanticallyEqual(hReq.policy, GetUserPolicy(httpLog[1].answer).out))
    => tfState.policy = hReq.policy

\* C20 as stated: a user Create whose CreateUser call fails with
\* EntityAlreadyExists records the user in state and reports no error.
C20_UserCreateAdoptsExisting ==
    (/\ hPc = "done" /\ hKind = "iamUserCreate"
     /\ IsOrWrapsApiCode(httpLog[1].err, {"EntityAlreadyExists"}))
    => (diags = << >> /\ tfState # NullState)

\* C21 as stated: a user Create that writes the state has, after its
\* CreateUser call, made a GetUser call that returned the user.
C21_UserCreateChecksVisibility ==
    (hPc = "done" /\ hKind = "iamUserCreate" /\ stateOps = <<"Set">>) =>
        \E i \in 2..Len(httpLog) :
            /\ httpLog[i].op = "GetUser" /\ httpLog[i].err = NilErr
            /\ httpLog[1].op = "CreateUser"

\* the bucket Create returned with one error diagnostic of the given
\* summaries and a null state
CreateFailed(summaries) ==
    /\ Len(diags) = 1 /\ diags[1].summary \in summaries
    /\ stateOps = << >> /\ tfState = NullState

\* the bucket Create recorded the planned bucket without a diagnostic
BucketAdopted ==
    /\ Refreshed
    /\ tfState.id = hReq.bucket /\ tfState.bucket = hReq.bucket
    /\ tfState.arn = "arn:aws:s3:::b"

\* C22 as stated: a bucket Create whose CreateBucket fails with
\* BucketAlreadyOwnedByYou or BucketAlreadyExists issues HeadBucket and, if
\* that succeeds, records the bucket in state without error; any other
\* CreateBucket error, or a failing HeadBucket, gives an error diagnostic and
\* no state.
C22_BucketCreateIdempotent ==
    (hPc = "done" /\ hKind = "bucketCreate") =>
        LET e == httpLog[1].err
            exists == IsOrWrapsApiCode(e, {"BucketAlreadyOwnedByYou", "BucketAlreadyExists"})
        IN  /\ exists => (Len(httpLog) = 2 /\ httpLog[2].op = "HeadBucket")
            /\ (exists /\ httpLog[2].err = NilErr) => BucketAdopted
            /\ (e # NilErr /\ ~exists) =>
                  (Len(httpLog) = 1 /\ CreateFailed({"Failed to create bucket"}))
            /\ (exists /\ httpLog[2].err # NilErr) =>
                  CreateFailed({"Failed to verify existing bucket"})

\* C22 amended: as C22, but after a successful HeadBucket the bucket is
\* recorded only if the tag calls that follow succeed; a failing
\* PutBucketTags or GetBucketTags gives its own error diagnostic and no state.
C22_BucketCreateIdempotentUnlessTagsFail ==
    (hPc = "done" /\ hKind = "bucketCreate") =>
        LET e == httpLog[1].err
            exists == IsOrWrapsApiCode(e, {"BucketAlreadyOwnedByYou", "BucketAlreadyExists"})
        IN  /\ exists => (Len(httpLog) = 2 /\ httpLog[2].op = "HeadBucket")
            /\ (exists /\ httpLog[2].err = NilErr) =>
                  \/ BucketAdopted
                  \/ CreateFailed({"Failed to set bucket tags", "Failed to read bucket tags"})
            /\ (e # NilErr /\ ~exists) =>
                  (Len(httpLog) = 1 /\ CreateFailed({"Failed to create bucket"}))
            /\ (exists /\ httpLog[2].err # NilErr) =>
                  CreateFailed({"Failed to verify existing bucket"})

\* CreateBucket answered 409 BucketAlreadyExists, HEAD answered 200: the
\* bucket is in state with the tags read back
C22_Witness ==
    /\ hPc = "done" /\ hKind = "bucketCreate" /\ BucketAdopted
    /\ httpLog[1].err = iamErrorMsg("BucketAlreadyExists", "m")
    /\ Len(httpLog) = 2 /\ httpLog[2].answer = Answer("ok", 200, EmptyBody)
    /\ tfState.tags = {<<"env", "dev">>}

\* the error body is <ErrorResponse><Error><Code>c</Code><Message>m</Message>
\* </Error></ErrorResponse>
NestedShape(body, c, m) == body = Body("xml", c, m, "", "", NoPayload)

\* the error body is a bare <Error><Code>c</Code><Message>m</Message></Error>
BareShape(body, c, m) == body = Body("xml", "", "", c, m, NoPayload)

\* an exchange that was answered with a failure status
Failed(x) == x.answer.transport = "ok" /\ x.answer.status >= 400

\* C29: a failed response whose body is the nested ErrorResponse shape or the
\* bare Error shape with code C and message M makes the client call return
\* the API error with code C and message M; a GetUser answered NoSuchEntity
\* returns an error that satisfies isNoSuchEntityError.
C29_BothErrorShapesClassifiedAlike ==
    \A i \in 1..Len(httpLog) :
        LET x == httpLog[i] IN
        Failed(x) =>
            /\ \A c \in (NestedCodes \cup TopCodes) \ {""}, m \in Messages \ {""} :
                  (NestedShape(x.answer.body, c, m) \/ BareShape(x.answer.body, c, m))
                      => (x.err.typ = "iamError" /\ x.err.code = c /\ x.err.msg = m)
            /\ (x.op = "GetUser" /\ \E m \in Messages \ {""} :
                                       NestedShape(x.answer.body, "NoSuchEntity", m))
                  => isNoSuchEntityError(x.err)

\* HeadBucket is answered 404 with a bare <Error> body saying NoSuchBucket:
\* the error carries that code and message and the bucket is removed
C29_Witness ==
    /\ hPc = "done" /\ hKind = "bucketRead" /\ Len(httpLog) = 1
    /\ BareShape(httpLog[1].answer.body, "NoSuchBucket", "m")
    /\ httpLog[1].answer.status = 404
    /\ httpLog[1].err = iamErrorMsg("NoSuchBucket", "m")
    /\ Removed

\* the error body yields neither a code nor a message
NoCodeNoMessage(body) ==
    \/ body.kind # "xml"
    \/ (body.errCode = "" /\ body.errMsg = "" /\ body.code = "" /\ body.msg = "")

\* C30: a failed response whose body yields neither a code nor a message
\* makes the client call return the API error with code "HTTP<status>" and
\* the raw body without its surrounding white space as message; with status
\* 500 or 503 that error is a service failure and retryable.
C30_FallbackIsStatusCode ==
    \A i \in 1..Len(httpLog) :
        LET x == httpLog[i]
            b == x.answer.body
        IN  (Failed(x) /\ NoCodeNoMessage(b)) =>
                /\ x.err.typ = "iamError"
                /\ x.err.code = (CASE x.answer.status = 404 -> "HTTP404"
                                   [] x.answer.status = 409 -> "HTTP409"
                                   [] x.answer.status = 500 -> "HTTP500"
                                   [] x.answer.status = 503 -> "HTTP503")
                /\ x.err.msg = (CASE b.kind = "empty" -> ""
                                  [] b.kind \in {"text", "padded"} -> "Not Found"
                                  [] b.kind = "xml" -> "<xml/>")
                /\ x.answer.status \in {500, 503} =>
                      (isServiceFailureError(x.err) /\ isRetryableIAMError(x.err))

\* GetUser is answered 503 with a body of padded plain text
C30_Witness ==
    /\ hPc = "done" /\ hKind = "iamUserRead" /\ Len(httpLog) = 1
    /\ httpLog[1].answer = Answer("ok", 503, PaddedBody)
    /\ httpLog[1].err = iamErrorMsg("HTTP503", "Not Found")
    /\ isRetryableIAMError(httpLog[1].err)
    /\ Errored

-----------------------------------------------------------------------------
(* Functions without side effects: newIAMClient (client.go) and           *)
(* policiesSemanticallyEqual (policy_json.go), each called once on        *)
(* arguments of every kind.                                               *)

\* errors.New(msg)
errorsNew(msg) == [typ |-> "errorString", code |-> msg]

\* strings.TrimRight(s, "/") over the runs of s, a run of slashes being "/"
RECURSIVE TrimRightSlash(_)
TrimRightSlash(runs) ==
    IF runs # << >> /\ runs[Len(runs)] = "/"
    THEN TrimRightSlash(SubSeq(runs, 1, Len(runs) - 1))
    ELSE runs

\* client.go:22-28; Endpoint is given by its runs, << >> being ""
iamClientConfig(endpoint, region, accessKey, secretKey, insecure) ==
    [Endpoint |-> endpoint, Region |-> region, AccessKey |-> accessKey,
     SecretKey |-> secretKey, Insecure |-> insecure]

Configs ==
    {iamClientConfig(e, r, ak, sk, i) :
        e \in {<< >>, <<"http://h:8333">>, <<"http://h:8333", "/">>},
        r \in {"", "eu-west-1"}, ak \in {"", "AK"}, sk \in {"", "SK"}, i \in BOOLEAN}

\* a nil *iamClient
NoClient == [kind |-> "nil"]

newIAMClientNoSecretCheck(cfg) ==
    IF cfg.Endpoint = << >>
    THEN [client |-> NoClient, err |-> errorsNew("endpoint is required")]
    ELSE IF cfg.AccessKey = ""
    THEN [client |-> NoClient, err |-> errorsNew("access_key and secret_key are required")]
    ELSE [client |-> [kind |-> "iamClient",
                      endpoint |-> Concat(TrimRightSlash(cfg.Endpoint)),
                      region |-> IF cfg.Region = "" THEN "us-east-1" ELSE cfg.Region,
                      accessKey |-> cfg.AccessKey, secretKey |-> cfg.SecretKey,
                      insecureSkipVerify |-> cfg.Insecure],
          err |-> NilErr]

\* client.go:103-135
newIAMClient(cfg) ==
    IF cfg.Endpoint = << >>
    THEN [client |-> NoClient, err |-> errorsNew("endpoint is required")]
    ELSE IF cfg.AccessKey = "" \/ cfg.SecretKey = ""
    THEN [client |-> NoClient, err |-> errorsNew("access_key and secret_key are required")]
    ELSE [client |-> [kind |-> "iamClient",
                      endpoint |-> Concat(TrimRightSlash(cfg.Endpoint)),
                      region |-> IF cfg.Region = "" THEN "us-east-1" ELSE cfg.Region,
                      accessKey |-> cfg.AccessKey, secretKey |-> cfg.SecretKey,
                      insecureSkipVerify |-> cfg.Insecure],
          err |-> NilErr]

\* the numbers of the documents compared: 0..MaxLow and 2^53..2^53 + MaxLow
MaxLow == 3

\* JSON documents with one member whose value is a number
NumberDocs ==
    {PolicyString("json", << <<1, JNumber(h, l)>> >>, FALSE) : h \in 0..1, l \in 0..MaxLow}

\* strings that are not JSON: x, %zz (each bare and padded), blank, empty
NonJsonStrings ==
    {PolicyString(f, << >>, w) : f \in {"text", "badescape"}, w \in BOOLEAN}
        \cup {PolicyString("blank", << >>, FALSE), EmptyString}

PolicyInputs == JsonDocs \cup NumberDocs \cup NonJsonStrings

\* a function is called
PureEntry ==
    /\ purePc = "call"
    /\ pureOut = NoValue
    /\ \/ pureOp = "newIAMClient" /\ pureArgs \in {[cfg |-> c] : c \in Configs}
       \/ /\ pureOp = "policiesSemanticallyEqual"
          /\ pureArgs \in {[a |-> x, b |-> y] : x \in PolicyInputs, y \in PolicyInputs}

PureInit == LockInit /\ RetryIdle /\ ResIdle /\ BackendStart /\ PureEntry

callNewIAMClient ==
    /\ purePc = "call" /\ pureOp = "newIAMClient"
    /\ pureOut' = newIAMClient(pureArgs.cfg)
    /\ purePc' = "done"
    /\ UNCHANGED <<pureOp, pureArgs>>

callPoliciesSemanticallyEqual ==
    /\ purePc = "call" /\ pureOp = "policiesSemanticallyEqual"
    /\ pureOut' = [result |-> policiesSemanticallyEqual(pureArgs.a, pureArgs.b)]
    /\ purePc' = "done"
    /\ UNCHANGED <<pureOp, pureArgs>>

PureNext ==
    /\ \/ callNewIAMClient
       \/ callPoliciesSemanticallyEqual
    /\ UNCHANGED <<lockVars, retryVars, resVars, backendVars>>

PureSpec == PureInit /\ [][PureNext]_vars

-----------------------------------------------------------------------------
(* Properties of the functions without side effects *)

Returned(op) == purePc = "done" /\ pureOp = op

\* C24: newIAMClient fails if and only if the endpoint, the access key or
\* the secret key is empty (and then returns no client); an empty region
\* never makes it fail and the client gets the region us-east-1 for it.
C24_ClientNeedsEndpointAndKeys ==
    Returned("newIAMClient") =>
        LET cfg == pureArgs.cfg IN
        /\ (pureOut.err # NilErr) <=>
               (cfg.Endpoint = << >> \/ cfg.AccessKey = "" \/ cfg.SecretKey = "")
        /\ (pureOut.err # NilErr) <=> (pureOut.client = NoClient)
        /\ (pureOut.err = NilErr) =>
               pureOut.client.region = (IF cfg.Region = "" THEN "us-east-1" ELSE cfg.Region)

\* endpoint and keys given, no region: a client for us-east-1
C24_Witness ==
    /\ Returned("newIAMClient")
    /\ pureArgs.cfg = iamClientConfig(<<"http://h:8333", "/">>, "", "AK", "SK", FALSE)
    /\ pureOut.err = NilErr
    /\ pureOut.client.region = "us-east-1"
    /\ pureOut.client.endpoint = "http://h:8333"

\* the members of a JSON document as a set
MemberSet(str) == {str.members[i] : i \in 1..Len(str.members)}

\* C25 as stated: for JSON documents, policiesSemanticallyEqual returns true
\* when they hold the same members (whatever the order of the keys and the
\* white space) and false when they differ in a value.
C25_EqualIffSameMembers ==
    (/\ Returned("policiesSemanticallyEqual")
     /\ pureArgs.a.form = "json" /\ pureArgs.b.form = "json")
    => (pureOut.result <=> (MemberSet(pureArgs.a) = MemberSet(pureArgs.b)))

\* the text of a string that is not JSON, without the white space around it
TrimmedText(str) ==
    CASE str.form \in {"blank", "empty"} -> ""
      [] str.form = "text" -> "x"
      [] str.form = "badescape" -> "%zz"

\* C26: policiesSemanticallyEqual always returns a boolean; when one of the
\* strings is not JSON the result says whether the two are equal once the
\* white space around them is removed.
C26_FallbackIsTrimmedEquality ==
    Returned("policiesSemanticallyEqual") =>
        /\ pureOut.result \in BOOLEAN
        /\ (pureArgs.a.form # "json" /\ pureArgs.b.form # "json") =>
              (pureOut.result <=> (TrimmedText(pureArgs.a) = TrimmedText(pureArgs.b)))
        /\ ((pureArgs.a.form = "json") # (pureArgs.b.form = "json")) => ~pureOut.result

\* "  x  " and "x" are equal
C26_Witness ==
    /\ Returned("policiesSemanticallyEqual")
    /\ pureArgs.a = PolicyString("text", << >>, TRUE)
    /\ pureArgs.b = PolicyString("text", << >>, FALSE)
    /\ pureOut.result

-----------------------------------------------------------------------------
(* The client against the backend of client_test.go: every client call    *)
(* is answered by the handler of the test server, or by something in      *)
(* between that fails the exchange and leaves the backend as it was.      *)

\* Go maps as sets of <<key, value>> pairs: m[k] (for a key of m),
\* m[k] = v, delete(m, k)
MapHas(m, k) == \E p \in m : p[1] = k
MapGet(m, k) == (CHOOSE p \in m : p[1] = k)[2]
MapSet(m, k, v) == {p \in m : p[1] # k} \cup {<<k, v>>}
MapDelete(m, k) == {p \in m : p[1] # k}

\* replies of the test server: 200 with the result element of the action,
\* 200 with a response element that holds no result, 204, and the two 404s
XmlAnswer(op, val) == Answer("ok", 200, Body("xml", "", "", "", "", [op |-> op, val |-> val]))
DoneAnswer == Answer("ok", 200, BareXmlBody)
NoContentAnswer == Answer("ok", 204, EmptyBody)
NoSuchEntityAnswer == Answer("ok", 404, Body("xml", "NoSuchEntity", "Not found", "", "", NoPayload))
BareErrorAnswer(code, msg) == Answer("ok", 404, Body("xml", "", "", code, msg, NoPayload))

\* a 200 whose XML body breaks off after the first elements of the result:
\* xml.Unmarshal has filled val into out when it reports the syntax error
TruncatedAnswer(op, val) ==
    Answer("ok", 200, Body("truncated", "", "", "", "", [op |-> op, val |-> val]))

\* the exchanges that fail before the handler of the backend runs
Faults ==
    {Answer("doErr", 0, EmptyBody), Answer("readErr", 200, EmptyBody),
     Answer("ok", 503, Body("xml", "ServiceFailure", "m", "", "", NoPayload)),
     Answer("ok", 500, EmptyBody), Answer("ok", 200, TextBody)}

\* client_test.go:43, 46  the user the server reports
ServedUser(name) ==
    [UserName |-> name, Arn |-> "arn:aws:iam::123456789012:user/" \o name,
     UserID |-> "uid-123", Path |-> "/"]

\* the values the calls of the client are made with
BackendUser == "alice"
BackendKeyId == "AKIA_TEST"
BackendPolicy == "p1"
BackendBucket == "b1"
BackendDocuments ==
    {PolicyString(f, << <<1, JString("2012-10-17")>> >>, FALSE) : f \in {"json", "percent"}}
        \cup {PolicyString("badescape", << >>, FALSE)}
BackendTagMaps ==
    {{}, {<<"env", "dev">>}, {<<"env", "prod">>, <<"team", "platform">>}}

\* a client call returns: the call, whether a fault answered it, the answer,
\* the error and the result
Returns(op, fault, a, err, out) ==
    last' = [op |-> op, fault |-> fault, answer |-> a, err |-> err, out |-> out]

\* no result besides the error
NoResult == [kind |-> "none"]

\* the answers to a call: of the handler (served), or of a fault; a fault
\* to a call that decodes a result may also be a 200 with a broken body,
\* one to a call without a result is not a 200
AnswersTo(fault, served, broken) ==
    IF ~fault THEN {served}
    ELSE IF broken = NoResult THEN Faults \ {Answer("ok", 200, TextBody)}
    ELSE Faults \cup {broken}

\* client_test.go:39-42
callCreateUser ==
    /\ \E fault \in BOOLEAN :
         \E a \in AnswersTo(fault, XmlAnswer("CreateUserResult", ServedUser(BackendUser)),
                            TruncatedAnswer("CreateUserResult",
                                            [ZeroUser EXCEPT !.Path = "/"])) :
            LET r == CreateUser(a) IN
            /\ Returns("CreateUser", fault, a, r.err, r.out)
            /\ users' = IF fault THEN users ELSE users \cup {BackendUser}
    /\ UNCHANGED <<keys, policies, buckets, bucketTags, issued, tagged>>

\* client_test.go:43-50
callGetUser ==
    /\ \E fault \in BOOLEAN :
         \E a \in AnswersTo(fault,
                            IF BackendUser \in users
                            THEN XmlAnswer("GetUserResult", ServedUser(BackendUser))
                            ELSE NoSuchEntityAnswer,
                            TruncatedAnswer("GetUserResult",
                                            [ZeroUser EXCEPT !.Path = "/"])) :
            LET r == GetUser(a) IN
            Returns("GetUser", fault, a, r.err, r.out)
    /\ UNCHANGED <<users, keys, policies, buckets, bucketTags, issued, tagged>>

\* client_test.go:51-54
callDeleteUser ==
    /\ \E fault \in BOOLEAN :
         \E a \in AnswersTo(fault, DoneAnswer, NoResult) :
            /\ Returns("DeleteUser", fault, a, DeleteUser(a), NoResult)
            /\ users' = IF fault THEN users ELSE users \ {BackendUser}
    /\ UNCHANGED <<keys, policies, buckets, bucketTags, issued, tagged>>

\* client_test.go:231-238
callCreateAccessKey ==
    /\ \E fault \in BOOLEAN :
         \E a \in AnswersTo(fault,
                            IF BackendUser \in users
                            THEN XmlAnswer("CreateAccessKeyResult",
                                           AccessKey(BackendUser, BackendKeyId, "Active",
                                                     "SECRET123"))
                            ELSE NoSuchEntityAnswer,
                            TruncatedAnswer("CreateAccessKeyResult",
                                            AccessKey(BackendUser, BackendKeyId, "", ""))) :
            LET r == CreateAccessKey(a) IN
            /\ Returns("CreateAccessKey", fault, a, r.err, r.out)
            /\ keys' = IF ~fault /\ BackendUser \in users
                       THEN MapSet(keys, BackendUser, BackendKeyId) ELSE keys
            /\ issued' = IF r.err = NilErr THEN r.out.AccessKeyID ELSE issued
    /\ UNCHANGED <<users, policies, buckets, bucketTags, tagged>>

\* client_test.go:239-244
callListAccessKeys ==
    /\ \E fault \in BOOLEAN :
         \E a \in AnswersTo(fault,
                            XmlAnswer("ListAccessKeysResult",
                                      IF MapHas(keys, BackendUser)
                                      THEN [items |->
                                               <<KeyMetadata(MapGet(keys, BackendUser),
                                                             "Active")>>]
                                      ELSE NoKeys),
                            TruncatedAnswer("ListAccessKeysResult",
                                            [items |-> <<KeyMetadata(BackendKeyId, "")>>])) :
            LET r == ListAccessKeys(a) IN
            Returns("ListAccessKeys", fault, a, r.err, r.out)
    /\ UNCHANGED <<users, keys, policies, buckets, bucketTags, issued, tagged>>

\* client_test.go:245-247; the client deletes the key id it was given
callDeleteAccessKey ==
    /\ \E fault \in BOOLEAN :
         \E a \in AnswersTo(fault, DoneAnswer, NoResult) :
            LET err == DeleteAccessKey(a) IN
            /\ Returns("DeleteAccessKey", fault, a, err, NoResult)
            /\ keys' = IF fault THEN keys ELSE MapDelete(keys, BackendUser)
            /\ issued' = IF err = NilErr THEN "" ELSE issued
    /\ UNCHANGED <<users, policies, buckets, bucketTags, tagged>>

PolicyKey == BackendUser \o ":" \o BackendPolicy

\* client_test.go:248-250
callPutUserPolicy ==
    /\ \E fault \in BOOLEAN, doc \in BackendDocuments :
         \E a \in AnswersTo(fault, DoneAnswer, NoResult) :
            /\ Returns("PutUserPolicy", fault, a, PutUserPolicy(a), NoResult)
            /\ policies' = IF fault THEN policies ELSE MapSet(policies, PolicyKey, doc)
    /\ UNCHANGED <<users, keys, buckets, bucketTags, issued, tagged>>

\* client_test.go:251-259
callGetUserPolicy ==
    /\ \E fault \in BOOLEAN :
         \E a \in AnswersTo(fault,
                            IF MapHas(policies, PolicyKey)
                            THEN XmlAnswer("GetUserPolicyResult",
                                           [PolicyDocument |-> MapGet(policies, PolicyKey)])
                            ELSE NoSuchEntityAnswer,
                            TruncatedAnswer("GetUserPolicyResult",
                                            [PolicyDocument |->
                                                PolicyString("badescape", << >>, FALSE)])) :
            LET r == GetUserPolicy(a) IN
            Returns("GetUserPolicy", fault, a, r.err, r.out)
    /\ UNCHANGED <<users, keys, policies, buckets, bucketTags, issued, tagged>>

\* client_test.go:260-262
callDeleteUserPolicy ==
    /\ \E fault \in BOOLEAN :
         \E a \in AnswersTo(fault, DoneAnswer, NoResult) :
            /\ Returns("DeleteUserPolicy", fault, a, DeleteUserPolicy(a), NoResult)
            /\ policies' = IF fault THEN policies ELSE MapDelete(policies, PolicyKey)
    /\ UNCHANGED <<users, keys, buckets, bucketTags, issued, tagged>>

\* client_test.go:199-201
callCreateBucket ==
    /\ \E fault \in BOOLEAN :
         \E a \in AnswersTo(fault, Answer("ok", 200, EmptyBody), NoResult) :
            /\ Returns("CreateBucket", fault, a, CreateBucket(a), NoResult)
            /\ buckets' = IF fault THEN buckets ELSE buckets \cup {BackendBucket}
    /\ UNCHANGED <<users, keys, policies, bucketTags, issued, tagged>>

\* client_test.go:202-208; the reply to a HEAD request carries no body
callHeadBucket ==
    /\ \E fault \in BOOLEAN :
         \E a \in AnswersTo(fault,
                            IF BackendBucket \in buckets
                            THEN Answer("ok", 200, EmptyBody)
                            ELSE Answer("ok", 404, EmptyBody),
                            NoResult) :
            /\ a.body = EmptyBody
            /\ Returns("HeadBucket", fault, a, HeadBucket(a), NoResult)
    /\ UNCHANGED <<users, keys, policies, buckets, bucketTags, issued, tagged>>

\* client_test.go:209-211
callDeleteBucket ==
    /\ \E fault \in BOOLEAN :
         \E a \in AnswersTo(fault, NoContentAnswer, NoResult) :
            /\ Returns("DeleteBucket", fault, a, DeleteBucket(a), NoResult)
            /\ buckets' = IF fault THEN buckets ELSE buckets \ {BackendBucket}
    /\ UNCHANGED <<users, keys, policies, bucketTags, issued, tagged>>

\* s3types.Tag, s3types.Tagging
Tag(k, v) == [Key |-> k, Value |-> v]
NoTagging == [TagSet |-> << >>]

smithyAPIError(code) == [typ |-> "smithyAPIError", code |-> code]

\* c.s3.<name>(ctx, input) (part_001:297, 329, 343): the S3 client of the
\* AWS SDK turns the reply into the Tagging element of a 2xx, or into an
\* operation error that wraps the transport error or, for a failure status,
\* a smithy.APIError with the code of the body
s3Operation(name, a) ==
    IF a.transport # "ok"
    THEN [err |-> wrapError("operation error S3: " \o name, TransportErr), out |-> NoTagging]
    ELSE IF a.status >= 400
    THEN [err |-> wrapError("operation error S3: " \o name,
                            smithyAPIError(
                                IF a.body.kind # "xml" THEN "UnknownError"
                                ELSE IF a.body.errCode # "" THEN a.body.errCode
                                ELSE IF a.body.code # "" THEN a.body.code
                                ELSE "UnknownError")),
          out |-> NoTagging]
    ELSE [err |-> NilErr, out |-> Decode(a.body, "Tagging", NoTagging)]

\* errors.As(err, &apiErr) for a smithy.APIError
RECURSIVE errorsAsAPIError(_)
errorsAsAPIError(err) ==
    IF err.typ = "smithyAPIError" THEN err
    ELSE IF err.typ = "wrapError" THEN errorsAsAPIError(err.inner)
    ELSE NilErr

isNoSuchTagSetErrorUnwrapped(err) ==
    err.typ = "smithyAPIError" /\ err.code = "NoSuchTagSet"

\* part_001:546-552
isNoSuchTagSetError(err) ==
    LET apiErr == errorsAsAPIError(err) IN
    apiErr.typ = "smithyAPIError" /\ apiErr.code = "NoSuchTagSet"

\* part_001:308-311, client_test.go:181-184: a tag list into a map, a later
\* tag replacing an earlier one of the same key
RECURSIVE TagMapOf(_)
TagMapOf(tagSet) ==
    IF tagSet = << >> THEN {}
    ELSE LET n == Len(tagSet) IN
         MapSet(TagMapOf(SubSeq(tagSet, 1, n - 1)), tagSet[n].Key, tagSet[n].Value)

\* the tag keys in the order of sort.Strings
TagKeysSorted == <<"env", "team">>

\* part_001:315-327: the tags of a map ordered by key
TagSetOf(tags) ==
    LET ks == SelectSeq(TagKeysSorted, LAMBDA k : MapHas(tags, k)) IN
    [i \in 1..Len(ks) |-> Tag(ks[i], MapGet(tags, ks[i]))]

\* client_test.go:159-165: the tags of a map in the order of a range over it
TagSetsOf(tags) ==
    {[i \in 1..Cardinality(tags) |-> Tag(q[i][1], q[i][2])] :
        q \in {x \in [1..Cardinality(tags) -> tags] : \A t \in tags : \E i \in DOMAIN x : x[i] = t}}

\* part_001:296-312
GetBucketTags(a) ==
    LET r == s3Operation("GetBucketTagging", a) IN
    IF r.err # NilErr
    THEN IF isNoSuchTagSetError(r.err) THEN [err |-> NilErr, out |-> {}]
         ELSE [err |-> wrapError("get bucket tagging", r.err), out |-> {}]
    ELSE [err |-> NilErr, out |-> TagMapOf(r.out.TagSet)]

\* part_001:314-340 after the tag set is built
PutBucketTags(a) ==
    LET r == s3Operation("PutBucketTagging", a) IN
    IF r.err # NilErr THEN wrapError("put bucket tagging", r.err) ELSE NilErr

\* part_001:342-350
DeleteBucketTags(a) ==
    LET r == s3Operation("DeleteBucketTagging", a) IN
    IF r.err # NilErr THEN wrapError("delete bucket tagging", r.err) ELSE NilErr

\* the tagging exchanges that fail before the handler of the backend runs
TagFaults ==
    {Answer("doErr", 0, EmptyBody),
     Answer("ok", 500, Body("xml", "", "", "InternalError", "m", NoPayload))}

NoSuchBucketAnswer == BareErrorAnswer("NoSuchBucket", "Not Found")

\* bucketTags[bucket], the nil map when there is none
TagsOfBucket == IF MapHas(bucketTags, BackendBucket) THEN MapGet(bucketTags, BackendBucket) ELSE {}

\* client_test.go:143-170
callGetBucketTags ==
    /\ \E fault \in BOOLEAN :
         \E a \in IF fault THEN TagFaults
                   ELSE IF BackendBucket \notin buckets THEN {NoSuchBucketAnswer}
                   ELSE IF TagsOfBucket = {} THEN {BareErrorAnswer("NoSuchTagSet", "No tags")}
                   ELSE {XmlAnswer("Tagging", [TagSet |-> ts]) : ts \in TagSetsOf(TagsOfBucket)} :
            LET r == GetBucketTags(a) IN
            Returns("GetBucketTags", fault, a, r.err, r.out)
    /\ UNCHANGED <<users, keys, policies, buckets, bucketTags, issued, tagged>>

\* client_test.go:143-151, 171-186
callPutBucketTags ==
    /\ \E fault \in BOOLEAN, tags \in BackendTagMaps :
         LET tagSet == TagSetOf(tags)
             served == ~fault /\ BackendBucket \in buckets
         IN  \E a \in IF fault THEN TagFaults
                       ELSE IF served THEN {Answer("ok", 200, EmptyBody)}
                       ELSE {NoSuchBucketAnswer} :
                LET err == PutBucketTags(a) IN
                /\ Returns("PutBucketTags", fault, a, err, NoResult)
                /\ bucketTags' = IF served
                                 THEN MapSet(bucketTags, BackendBucket, TagMapOf(tagSet))
                                 ELSE bucketTags
                /\ tagged' = IF err = NilErr THEN tags ELSE tagged
    /\ UNCHANGED <<users, keys, policies, buckets, issued>>

\* client_test.go:143-151, 187-189
callDeleteBucketTags ==
    /\ \E fault \in BOOLEAN :
         LET served == ~fault /\ BackendBucket \in buckets IN
         \E a \in IF fault THEN TagFaults
                   ELSE IF served THEN {NoContentAnswer}
                   ELSE {NoSuchBucketAnswer} :
            LET err == DeleteBucketTags(a) IN
            /\ Returns("DeleteBucketTags", fault, a, err, NoResult)
            /\ bucketTags' = IF served THEN MapDelete(bucketTags, BackendBucket)
                             ELSE bucketTags
            /\ tagged' = IF err = NilErr THEN {} ELSE tagged
    /\ UNCHANGED <<users, keys, policies, buckets, issued>>

BackendNext ==
    /\ \/ callCreateUser
       \/ callGetUser
       \/ callDeleteUser
       \/ callCreateAccessKey
       \/ callListAccessKeys
       \/ callDeleteAccessKey
       \/ callPutUserPolicy
       \/ callGetUserPolicy
       \/ callDeleteUserPolicy
       \/ callCreateBucket
       \/ callHeadBucket
       \/ callDeleteBucket
       \/ callGetBucketTags
       \/ callPutBucketTags
       \/ callDeleteBucketTags
    /\ UNCHANGED <<lockVars, retryVars, resVars, pureVars>>

BackendSpec == Init /\ [][BackendNext]_vars

-----------------------------------------------------------------------------
(* Properties of the client against the backend *)

\* the calls that go through doSignedRequest, and those that decode a result
SignedOps == {"CreateUser", "GetUser", "DeleteUser", "CreateAccessKey", "ListAccessKeys",
              "DeleteAccessKey", "PutUserPolicy", "GetUserPolicy", "DeleteUserPolicy",
              "CreateBucket", "HeadBucket", "DeleteBucket"}
ResultOps == {"CreateUser", "GetUser", "CreateAccessKey", "ListAccessKeys", "GetUserPolicy"}

\* the zero value of the result of a call
ZeroResult(op) ==
    CASE op \in {"CreateUser", "GetUser"} -> ZeroUser
      [] op = "CreateAccessKey" -> ZeroAccessKey
      [] op = "ListAccessKeys" -> NoKeys
      [] op = "GetUserPolicy" -> EmptyString
      [] OTHER -> NoResult

C27_KeyListFollowsLifecycle ==
    /\ (last.op = "ListAccessKeys" /\ ~last.fault) =>
          /\ last.err = NilErr
          /\ last.out.items = (IF issued = "" THEN << >>
                               ELSE <<[AccessKeyID |-> issued, Status |-> "Active"]>>)
          /\ \A i \in 1..Len(last.out.items) :
                "SecretAccessKey" \notin DOMAIN last.out.items[i]
    /\ (last.op = "CreateAccessKey" /\ last.err = NilErr) =>
          /\ last.out.AccessKeyID = "AKIA_TEST" /\ last.out.SecretAccessKey = "SECRET123"
          /\ issued = last.out.AccessKeyID
    /\ (last.op = "DeleteAccessKey" /\ last.err = NilErr) => issued = ""

\* the list after a key was created: that key
C27_Witness ==
    /\ last.op = "ListAccessKeys" /\ ~last.fault
    /\ issued = "AKIA_TEST"
    /\ last.out.items = <<[AccessKeyID |-> "AKIA_TEST", Status |-> "Active"]>>

\* C28: GetBucketTags on an existing bucket, answered by the backend,
\* returns without error the tag map that PutBucketTags stored last, and the
\* empty map when none was put or DeleteBucketTags removed it; the answer
\* NoSuchTagSet gives the empty map and no error.
C28_TagRoundTrip ==
    (last.op = "GetBucketTags" /\ ~last.fault /\ BackendBucket \in buckets) =>
        /\ last.err = NilErr
        /\ last.out = tagged
        /\ last.answer = BareErrorAnswer("NoSuchTagSet", "No tags") <=> tagged = {}

\* two tags put, the backend lists them in the other order: the same map
C28_Witness ==
    /\ last.op = "GetBucketTags" /\ ~last.fault
    /\ last.answer = XmlAnswer("Tagging", [TagSet |-> <<Tag("team", "platform"),
                                                        Tag("env", "prod")>>])
    /\ last.err = NilErr
    /\ last.out = {<<"env", "prod">>, <<"team", "platform">>}
    /\ tagged = last.out

-----------------------------------------------------------------------------
(* Termination of the retry engine *)

\* The goroutine that runs retryIAMEventuallyConsistent keeps running, the
\* operation returns each time it is invoked, and the runtime timer of a
\* wait expires; nothing obliges the caller to cancel the context.
RetryProgress ==
    (RetryBegin \/ RetryAttempt \/ RetrySelectCtx \/ RetrySelectTimer
        \/ RetryReturnLast \/ TimerFire)
    /\ UNCHANGED <<lockVars, resVars, pureVars, backendVars>>

RetryFairSpec == RetrySpec /\ WF_vars(RetryProgress)

\* C37: every run of the engine returns; when it has returned, the operation
\* was invoked at least once and at most max(attempts, 1) times, and the
\* value returned is nil exactly when the last invocation returned nil.
C37_TerminatesWithinBudget ==
    /\ <>(rPc = "done")
    /\ [](rPc = "done" =>
            /\ rCalls >= 1
            /\ rCalls <= (IF rArg < 1 THEN 1 ELSE rArg)
            /\ (rRet = NilErr) <=> (FnOutcome(rCalls) = NilErr))

\* budget -1: one invocation, its service failure returned without a wait
C37_Witness ==
    /\ rPc = "done" /\ rArg = -1
    /\ script[1] = iamError("ServiceFailure")
    /\ rCalls = 1 /\ rRet = iamError("ServiceFailure") /\ rWaits = << >>

\* the budget after the coercion of client.go:411-413
Budget == IF rArg < 1 THEN 1 ELSE rArg

\* C38: the engine looks at the context only inside a backoff wait: a run
\* that has returned has invoked the operation, also under a cancelled
\* context; the context's error comes back only from a wait, before the
\* budget is used up; no wait follows the final attempt, so a run that used
\* up its budget on retryable errors returns the last of them, cancelled
\* context or not.
C38_CancellationOnlyInWait ==
    rPc = "done" =>
        /\ rCalls >= 1
        /\ rRet = CtxErr => (Len(rWaits) = rCalls /\ rCalls < Budget)
        /\ (rCalls = Budget /\ RetryableOutcome(script[rCalls])) =>
              (rRet = script[rCalls] /\ Len(rWaits) = rCalls - 1)

\* budget 2 under a context cancelled before the first wait, the timer wins
\* the select: the second service failure is returned, not the context's error
C38_Witness ==
    /\ rPc = "done" /\ ctxDone /\ cancelAt = -1 /\ rArg = 2
    /\ script[1] = iamError("NoSuchEntity") /\ script[2] = iamError("ServiceFailure")
    /\ rCalls = 2 /\ rRet = iamError("ServiceFailure") /\ Len(rWaits) = 1

-----------------------------------------------------------------------------
(* Properties of the lock registry and of the unlocked Reads *)

InRegistry(p) == pc[p] \in {"gul_lockMu", "gul_lookup", "gul_create", "gul_unlock"}
InBody(p) == pc[p] \in {"wul_fn", "in_fn"}

\* C33 as stated: while some caller is executing a wrapped function body
\* under a per-user lock, another caller that has entered withUserLock and
\* still has to look its registry entry up can go on to do so.
C33_LookupProceedsDuringBody ==
    \A p, q \in Procs :
        (p # q /\ pc[p] = "in_fn" /\ HoldsUserLock(p) /\ pc[q] = "wul_gate")
            => ENABLED withUserLock(q)

\* C33 amended: the registry's own mutex is held only across the lookup or
\* creation and never while a wrapped body runs, and a caller that reaches
\* getUserLock never waits for it; but withUserLock takes the global gate
\* first, so while a body runs no other caller is inside a lookup or
\* creation: it waits at the gate.
C33_RegistryLockShortHeld ==
    \A p \in Procs :
        /\ InBody(p) => /\ lockMu = 0
                        /\ \A q \in Procs \ {p} : ~InRegistry(q)
        /\ pc[p] = "gul_lockMu" => ENABLED RegistryLock(p)

C33_Witness ==
    \E p, q \in Procs :
        /\ p # q /\ pc[p] = "in_fn" /\ HoldsUserLock(p) /\ lockMu = 0
        /\ pc[q] = "wul_gate" /\ key[q] # key[p] /\ userLocks[key[q]] = 0

\* C34: a registry entry is created on the first reference to a user name
\* and is never removed or replaced afterwards; every caller is handed the
\* entry of its user name, so callers with the same name hold the same
\* handle and different names have different handles.
C34_RegistryEntriesStable ==
    /\ [](\A p, q \in Procs :
            /\ lock[p] # 0 => lock[p] = userLocks[key[p]]
            /\ (lock[p] # 0 /\ lock[q] # 0) => (lock[p] = lock[q] <=> key[p] = key[q]))
    /\ [](\A u, v \in Users :
            (u # v /\ userLocks[u] # 0) => userLocks[u] # userLocks[v])
    /\ [][\A u \in Users :
            /\ userLocks[u] # 0 => userLocks'[u] = userLocks[u]
            /\ (userLocks[u] = 0 /\ userLocks'[u] # 0) =>
                  \E p \in Procs : pc[p] = "gul_create" /\ key[p] = u ]_vars

C34_Witness ==
    \E p, q \in Procs :
        /\ p # q /\ key[p] = "alice" /\ key[q] = "alice"
        /\ pc[p] = "returned" /\ pc[q] = "in_fn"
        /\ lock[p] = lock[q] /\ lock[q] # 0 /\ Len(mu) = 1

\* C35: a Read takes neither the global gate nor a per-user lock nor the
\* registry lock: it is never made to wait before it starts or before it
\* ends, also while a mutating body for the same user name is running.
C35_ReadsNeverWait ==
    \A p \in Procs :
        /\ pc[p] = "idle" => ENABLED ReadStart(p)
        /\ pc[p] = "reading" =>
              /\ ENABLED ReadEnd(p)
              /\ call[p] \in ReadCalls
              /\ ~HoldsGate(p) /\ ~HoldsUserLock(p) /\ lockMu # p /\ lock[p] = 0

C35_Witness ==
    \E p, q \in Procs :
        /\ p # q /\ pc[q] = "in_fn" /\ HoldsGate(q) /\ HoldsUserLock(q)
        /\ pc[p] = "reading" /\ key[p] = key[q] /\ call[p] = "GetUser"
        /\ call[q] = "DeleteUser"

-----------------------------------------------------------------------------
(* Frame of the access-key Read *)

\* the statuses the key list of an answer reports for key id
ListedStatuses(a, id) ==
    IF a.body.kind # "xml" \/ a.body.payload.op # "ListAccessKeysResult" THEN {}
    ELSE LET items == a.body.payload.val.items IN
         {items[i].Status : i \in {j \in 1..Len(items) : items[j].AccessKeyID = id}}

\* C39: a successful access-key Read writes id (the recorded access_key_id)
\* and status (as the key list reports it) and nothing else: user_name,
\* access_key_id and secret_access_key are those recorded before the Read.
C39_ReadKeepsCreateValues ==
    (hPc = "done" /\ hKind = "iamAccessKeyRead" /\ Refreshed) =>
        /\ tfState.user_name = hReq.user_name
        /\ tfState.access_key_id = hReq.access_key_id
        /\ tfState.secret_access_key = hReq.secret_access_key
        /\ tfState.id = hReq.access_key_id
        /\ tfState.status \in ListedStatuses(httpLog[1].answer, hReq.access_key_id)
        /\ DOMAIN tfState = DOMAIN hReq

C39_Witness ==
    /\ hPc = "done" /\ hKind = "iamAccessKeyRead" /\ Refreshed
    /\ hReq.status = "Active" /\ hReq.secret_access_key = "s1"
    /\ tfState.status = "Inactive" /\ tfState.secret_access_key = "s1"
    /\ tfState.user_name = "alice" /\ tfState.access_key_id = "k1"

-----------------------------------------------------------------------------
(* Errors of a Create reach the operator whole *)

\* the summary under which a Create reports the failure of its first call
CreateSummary(kind) ==
    IF kind = "iamUserCreate" THEN "Failed to create IAM user"
    ELSE IF kind = "iamAccessKeyCreate" THEN "Failed to create IAM access key"
    ELSE IF kind = "iamUserPolicyCreate" THEN "Failed to create IAM user policy"
    ELSE "Failed to create bucket"

\* the message a failure answer carries: <Error><Message>, else the
\* top-level <Message>, else (none given) the body itself
AnswerMessage(a) ==
    IF a.body.errMsg # "" THEN a.body.errMsg
    ELSE IF a.body.msg # "" THEN a.body.msg
    ELSE "<xml/>"

-----------------------------------------------------------------------------
(* Delete and absence *)

\* the summary under which a Delete reports a failure
DeleteSummary(kind) ==
    IF kind = "iamUserDelete" THEN "Failed to delete IAM user"
    ELSE IF kind = "iamAccessKeyDelete" THEN "Failed to delete IAM access key"
    ELSE IF kind = "iamUserPolicyDelete" THEN "Failed to delete IAM user policy"
    ELSE "Failed to delete bucket"

\* the codes by which a backend says that the thing to delete is not there
AbsenceCodes(kind) ==
    IF kind = "bucketDelete" THEN {"NoSuchBucket", "NotFound", "NoSuchKey", "NoSuchEntity"}
    ELSE {"NoSuchEntity"}

\* C36: a Delete whose backend call succeeds, or fails with NoSuchEntity (for
\* a bucket: with a no-such-bucket code), ends without a diagnostic; a Delete
\* whose call fails in any other way ends with one error diagnostic that
\* carries the error.  The handler itself never touches resp.State.
C36_DeleteToleratesAbsence ==
    (hPc = "done" /\ hKind \in DeleteKinds) =>
        LET x == httpLog[1]
            gone == /\ x.err.typ = "iamError"
                    /\ x.err.code \in AbsenceCodes(hKind)
        IN  /\ Len(httpLog) = 1
            /\ stateOps = << >> /\ tfState = hReq
            /\ (x.err = NilErr \/ gone) => diags = << >>
            /\ (x.err # NilErr /\ ~gone) =>
                  diags = <<[summary |-> DeleteSummary(hKind), detail |-> ErrorText(x.err)]>>
            /\ (Failed(x) /\ AnswerCode(x.answer) \in AbsenceCodes(hKind)) => gone

C36_Witness ==
    /\ hPc = "done" /\ hKind = "iamUserDelete"
    /\ httpLog[1].answer = Answer("ok", 404, Body("xml", "NoSuchEntity", "m", "", "", NoPayload))
    /\ httpLog[1].err = iamErrorMsg("NoSuchEntity", "m")
    /\ diags = << >> /\ tfState = hReq

-----------------------------------------------------------------------------
(* The recorded id *)

\* C32: the state a Create, Read or Update records without a diagnostic has
\* id = bucket and arn = "arn:aws:s3:::" + bucket (a bucket), id = name (a
\* user), id = access_key_id (an access key), id = user_name ":" name (a
\* user policy).
C32_RecordedIds ==
    (hPc = "done" /\ hKind \in ReadKinds \cup CreateKinds \cup UpdateKinds /\ Refreshed) =>
        /\ tfState.kind = "bucket" =>
              /\ tfState.id = tfState.bucket
              /\ tfState.arn = "arn:aws:s3:::" \o tfState.bucket
              /\ tfState.bucket = hReq.bucket
        /\ tfState.kind = "iam_user" => tfState.id = tfState.name
        /\ tfState.kind = "iam_access_key" => tfState.id = tfState.access_key_id
        /\ tfState.kind = "iam_user_policy" =>
              /\ tfState.id = tfState.user_name \o ":" \o tfState.name
              /\ tfState.user_name = hReq.user_name /\ tfState.name = hReq.name
        /\ tfState.kind \in {"bucket", "iam_user", "iam_access_key", "iam_user_policy"}

C32_Witness ==
    /\ hPc = "done" /\ hKind = "iamUserPolicyUpdate" /\ Refreshed
    /\ tfState.id = "alice:p" /\ tfState.policy = hReq.policy
    /\ EntryState(hKind, hReq).policy # hReq.policy

====
